---- MODULE Spec2Model ----
(***************************************************************************)
(* A model of passbook's access-control core: the key-ownership verifier   *)
(* (package verification), the team operations of package action that      *)
(* maintain .passbook-users and .passbook-recipients, and the secret       *)
(* writers that resolve a recipient set and hand it to age encryption.     *)
(*                                                                         *)
(* Files are modelled by their parsed content.  Time is counted in hours.  *)
(* crypto/rand challenges are modelled as fresh values (a counter): two    *)
(* 32-byte random challenges never collide.                                *)
(***************************************************************************)
EXTENDS Integers, Sequences, FiniteSets, TLC

\* ------------------------------------------------------------------ bounds

\* the clock runs from 0 to MaxTime hours, in steps of TickHours
MaxTime == 48
TickHours == 12
\* number of challenges crypto/rand is asked for in one run
MaxChallenges == 3
\* most records the users file holds in one run
MaxUsers == 3
\* number of invitations with key verification in one run of the team
MaxInvites == 1
\* number of file writes that fail in one run with faults
MaxFaults == 1
\* most users of a team the recipient resolver is tried on
MaxTeam == 3

\* ---------------------------------------------------------- program constants

\* ChallengeTTL = 24 * time.Hour
ChallengeTTL == 24

\* ------------------------------------------------------------------ inputs

NoKey == ""
Keys == {"age1a", "age1b", "age1c"}
\* the address Init gives the first admin, and the addresses invited later
AdminEmail == "admin@corp"
InviteEmails == {"bob@corp", "carol@corp"}
Emails == {AdminEmail} \cup InviteEmails
\* the keys an invitation can claim
ClaimedKeys == {"age1b", "age1c"}
\* what age.GenerateIdentity can return: a key nobody holds yet
GeneratedKeys == {"age1g"}
Responses == 1..MaxChallenges

ErrNone == "ok"
ErrChallengeExpired == "ChallengeExpired"
ErrChallengeNotFound == "ChallengeNotFound"
ErrChallengeMismatch == "ChallengeMismatch"
ErrInvalidKey == "invalid public key format"

\* age.ValidatePublicKey: the key parses as an X25519 recipient
ValidatePublicKey(key) == key \in Keys \cup GeneratedKeys

\* ------------------------------------------------------------------ state

VARIABLES
  pending,        \* .passbook-pending-verifications: sequence of records
  now,            \* wall clock, hours
  nextChallenge,  \* next value crypto/rand yields
  issued,         \* per email: the challenges issued for it so far
  wrong,          \* per email: a wrong response was given since the last issue
  verifiedWith,   \* per email: response accepted since the last issue (0: none)
  last,           \* outcome of the latest call
  users,          \* .passbook-users: sequence of user records
  roster,         \* .passbook-recipients: sequence of <key> # <label> lines
  store,          \* "none" before the store is initialised, then who did it
  faults,         \* number of file writes that can still fail in this run
  cred,           \* credentials/<website>/<name>.age: one credential file
  envs,           \* projects/<project>/<stage>.env.age: one file per stage
  encryptCall,    \* the latest call of Age.Encrypt by a secret writer
  ageBackend,     \* the Age object at hand: identity and publicKey
  plaintext,      \* the plaintext handed to the latest Age.Encrypt
  ciphertext,     \* the bytes the latest successful Age.Encrypt returned
  decrypted,      \* what the latest Age.Decrypt returned: bytes and error
  keyFile,        \* the identity file at identityPath
  rosterObject,   \* the recipients.Recipients object at hand
  recipientsFile  \* the text handed to recipients.Parse: a list of lines

vars == <<pending, now, nextChallenge, issued, wrong, verifiedWith, last,
          users, roster, store, faults, cred, envs, encryptCall,
          ageBackend, plaintext, ciphertext, decrypted, keyFile,
          rosterObject, recipientsFile>>

\* what the commands never touch: the backend and the roster package
\* taken on their own
ageVars ==
  <<ageBackend, plaintext, ciphertext, decrypted, keyFile,
    rosterObject, recipientsFile>>

\* what the team commands never touch
secretVars == <<cred, envs, encryptCall, ageVars>>

\* what the verifier never touches
teamVars == <<users, roster, store, faults, cred, envs, encryptCall, ageVars>>

\* models.Stage
Stages == {"dev", "staging", "prod"}

\* a secret whose Permissions field is nil
NilPermissions ==
  [isNil |-> TRUE, recipients |-> <<>>, useRoleBasedAccess |-> FALSE]

\* a secret file: its decrypted content (permissions, number of variables)
\* and the keys its ciphertext was encrypted to
SecretFile(permissions, nvars, readers) ==
  [exists |-> TRUE, permissions |-> permissions, nvars |-> nvars,
   readers |-> readers]

\* the path holds no file
NoFile == [exists |-> FALSE]

\* Age.Encrypt(ctx, data, recipients) as called by writer by for the file
\* target ("cred" or a stage), self being the key of the identity loaded
EncryptCall(by, target, recipients, self, err) ==
  [called |-> TRUE, by |-> by, target |-> target, recipients |-> recipients,
   self |-> self, err |-> err]

NoEncryptCall == [called |-> FALSE]

\* age.X25519Identity: nil, or the private key of an identity file
NoIdentity == "nil"

\* NewWithoutIdentity: &Age{}
NewWithoutIdentity == [identity |-> NoIdentity, publicKey |-> NoKey]

\* no ciphertext is at hand; Decrypt has not been called
NoCiphertext == [exists |-> FALSE]
NoDecrypted == [called |-> FALSE]

\* the backend has not been used on its own
InitAge ==
  /\ ageBackend = NewWithoutIdentity
  /\ plaintext = <<>>
  /\ ciphertext = NoCiphertext
  /\ decrypted = NoDecrypted
  /\ keyFile = NoFile
  /\ rosterObject = [keys |-> <<>>, emails |-> [k \in {} |-> ""]]
  /\ recipientsFile = <<>>

\* no secret has been written
InitSecrets ==
  /\ cred = NoFile
  /\ envs = [s \in Stages |-> NoFile]
  /\ encryptCall = NoEncryptCall
  /\ InitAge

\* the challenge issued last for an email, 0 when none was
Newest(e) == IF issued[e] = {} THEN 0
             ELSE CHOOSE c \in issued[e] : \A d \in issued[e] : d <= c

\* ------------------------------------------------------- sequence helpers

RemoveAt(s, i) == [j \in 1..(Len(s) - 1) |-> IF j < i THEN s[j] ELSE s[j + 1]]

\* ------------------------------------------------------- package verification

\* index of the first record for email, 0 when there is none
FindVerification(pv, email) ==
  IF \E i \in 1..Len(pv) : pv[i].email = email
  THEN CHOOSE i \in 1..Len(pv) :
         /\ pv[i].email = email
         /\ \A j \in 1..(i - 1) : pv[j].email # email
  ELSE 0

\* age encryption of the challenge to the claimed key alone
\* (NewWithoutIdentity: no self recipient)
EncryptChallenge(challenge, publicKey) ==
  [rcpts |-> {publicKey}, plain |-> challenge]

NewPendingVerification(email, publicKey, challenge, t) ==
  [email |-> email, publicKey |-> publicKey, challenge |-> challenge,
   encrypted |-> EncryptChallenge(challenge, publicKey),
   createdAt |-> t, expiresAt |-> t + ChallengeTTL]

\* a savePendingVerification that appends without dropping the old record
savePendingVerification_Append(pv, rec) == pv \o <<rec>>

\* savePendingVerification: drop every record of that email, append the new one
savePendingVerification(pv, rec) ==
  SelectSeq(pv, LAMBDA r : r.email # rec.email) \o <<rec>>

\* a removePendingVerification that never writes the shortened list back
removePendingVerification_NoSave(pv, idx) == pv

\* removePendingVerification: an index out of range changes nothing
removePendingVerification(pv, idx) ==
  IF idx < 1 \/ idx > Len(pv) THEN pv ELSE RemoveAt(pv, idx)

\* an expiry test with receiver and argument swapped: ExpiresAt.After(now)
IsExpired_Swapped(rec, t) == rec.expiresAt > t

\* time.Now().After(ExpiresAt)
IsExpired(rec, t) == t > rec.expiresAt

\* the error VerifyResponse returns
VerifyResponseErr(pv, t, email, response) ==
  LET idx == FindVerification(pv, email) IN
  IF idx = 0 THEN ErrChallengeNotFound
  ELSE IF IsExpired(pv[idx], t) THEN ErrChallengeExpired
  ELSE IF response # pv[idx].challenge THEN ErrChallengeMismatch
  ELSE ErrNone

\* a VerifyResponse that consumes the record before comparing the response
VerifyResponseFile_ConsumeFirst(pv, t, email, response) ==
  removePendingVerification(pv, FindVerification(pv, email))

\* the pending-verifications file VerifyResponse leaves behind
VerifyResponseFile(pv, t, email, response) ==
  LET idx == FindVerification(pv, email) IN
  IF idx = 0 THEN pv
  ELSE IF IsExpired(pv[idx], t) THEN removePendingVerification(pv, idx)
  ELSE IF response # pv[idx].challenge THEN pv
  ELSE removePendingVerification(pv, idx)

\* CleanupExpired keeps the records with now.Before(ExpiresAt)
CleanupExpiredFile(pv, t) == SelectSeq(pv, LAMBDA r : t < r.expiresAt)

Outcome(op, email, arg, err) ==
  [op |-> op, email |-> email, arg |-> arg, err |-> err]

\* Verifier.CreateChallenge(email, publicKey)
CreateChallenge(email, publicKey) ==
  /\ nextChallenge <= MaxChallenges
  /\ IF ~ValidatePublicKey(publicKey)
     THEN /\ last' = Outcome("CreateChallenge", email, 0, ErrInvalidKey)
          /\ UNCHANGED <<pending, now, nextChallenge, issued, wrong, verifiedWith>>
          /\ UNCHANGED teamVars
     ELSE /\ pending' = savePendingVerification(pending,
                NewPendingVerification(email, publicKey, nextChallenge, now))
          /\ nextChallenge' = nextChallenge + 1
          /\ issued' = [issued EXCEPT ![email] = @ \cup {nextChallenge}]
          /\ wrong' = [wrong EXCEPT ![email] = FALSE]
          /\ verifiedWith' = [verifiedWith EXCEPT ![email] = 0]
          /\ last' = Outcome("CreateChallenge", email, nextChallenge, ErrNone)
          /\ UNCHANGED now
          /\ UNCHANGED teamVars

\* Verifier.VerifyResponse(email, response)
VerifyResponse(email, response) ==
  LET err == VerifyResponseErr(pending, now, email, response) IN
  /\ pending' = VerifyResponseFile(pending, now, email, response)
  /\ last' = Outcome("VerifyResponse", email, response, err)
  /\ verifiedWith' = IF err = ErrNone
                     THEN [verifiedWith EXCEPT ![email] = response]
                     ELSE verifiedWith
  /\ wrong' = IF err = ErrChallengeMismatch
              THEN [wrong EXCEPT ![email] = TRUE]
              ELSE wrong
  /\ UNCHANGED <<now, nextChallenge, issued>>
  /\ UNCHANGED teamVars

\* Verifier.CleanupExpired()
CleanupExpired ==
  /\ pending' = CleanupExpiredFile(pending, now)
  /\ last' = Outcome("CleanupExpired", "", 0, ErrNone)
  /\ UNCHANGED <<now, nextChallenge, issued, wrong, verifiedWith>>
  /\ UNCHANGED teamVars

\* the wall clock advances
Tick ==
  /\ now + TickHours <= MaxTime
  /\ now' = now + TickHours
  /\ last' = Outcome("Tick", "", 0, ErrNone)
  /\ UNCHANGED <<pending, nextChallenge, issued, wrong, verifiedWith>>
  /\ UNCHANGED teamVars

InitVerifier ==
  /\ pending = <<>>
  /\ now = 0
  /\ nextChallenge = 1
  /\ issued = [e \in Emails |-> {}]
  /\ wrong = [e \in Emails |-> FALSE]
  /\ verifiedWith = [e \in Emails |-> 0]
  /\ last = Outcome("start", "", 0, ErrNone)
  /\ users = <<>>
  /\ roster = <<>>
  /\ store = "none"
  /\ faults = 0
  /\ InitSecrets

NextVerifier ==
  \/ \E e \in InviteEmails, k \in ClaimedKeys \cup {NoKey} : CreateChallenge(e, k)
  \/ \E e \in InviteEmails, r \in Responses : VerifyResponse(e, r)
  \/ CleanupExpired
  \/ Tick

SpecVerifier == InitVerifier /\ [][NextVerifier]_vars

\* ------------------------------------------------- claims on the verifier

\* the step just taken was the call VerifyResponse(e, r)
VerifyCalled(e, r) ==
  /\ last'.op = "VerifyResponse"
  /\ last'.email = e
  /\ last'.arg = r

HasRecord(pv, e) == FindVerification(pv, e) # 0
RecordOf(pv, e) == pv[FindVerification(pv, e)]

\* C4: once VerifyResponse(email, r) has succeeded, every later
\* VerifyResponse(email, r) made before a new challenge is issued for that
\* email fails with ChallengeNotFound.
C4_SingleUse ==
  [][\A e \in Emails :
       (verifiedWith[e] # 0 /\ VerifyCalled(e, verifiedWith[e]))
         => last'.err = ErrChallengeNotFound]_vars

\* C4 witness: the accepted response was given again and was refused
C4_Witness ==
  /\ last.op = "VerifyResponse"
  /\ last.err = ErrChallengeNotFound
  /\ last.arg # 0
  /\ verifiedWith[last.email] = last.arg

\* C5: a VerifyResponse made after the record's expires_at fails with
\* ChallengeExpired whatever the response, the exactly right one included,
\* and the record is gone from the pending-verifications file afterwards.
C5_Expiry ==
  [][\A e \in Emails, r \in Responses :
       (VerifyCalled(e, r) /\ HasRecord(pending, e)
          /\ now > RecordOf(pending, e).expiresAt)
         => /\ last'.err = ErrChallengeExpired
            /\ ~HasRecord(pending', e)]_vars

\* C5 witness: the right response arrived too late, and the record is gone
C5_Witness ==
  /\ last.op = "VerifyResponse"
  /\ last.err = ErrChallengeExpired
  /\ last.arg = Newest(last.email)
  /\ ~HasRecord(pending, last.email)

OneRecordPerEmail(pv) ==
  \A i, j \in 1..Len(pv) : pv[i].email = pv[j].email => i = j

\* C6: the pending-verifications file never holds two records for one
\* email, and a response is accepted only if it is the challenge issued
\* last for that email.
C6_OneLiveChallenge ==
  /\ []OneRecordPerEmail(pending)
  /\ [][\A e \in Emails, r \in Responses :
          (VerifyCalled(e, r) /\ last'.err = ErrNone) => r = Newest(e)]_vars

\* C6 witness: a challenge was re-issued, then the newest one was answered
C6_Witness ==
  /\ last.op = "VerifyResponse"
  /\ last.err = ErrNone
  /\ Cardinality(issued[last.email]) >= 2
  /\ Len(pending) >= 1

\* C8: on an unexpired record a response that differs from the stored
\* challenge fails with ChallengeMismatch and leaves the file as it was;
\* the right response on an unexpired record succeeds, also after wrong ones.
C8_Mismatch ==
  [][\A e \in Emails, r \in Responses :
       (VerifyCalled(e, r) /\ HasRecord(pending, e)
          /\ now <= RecordOf(pending, e).expiresAt)
         => IF r # RecordOf(pending, e).challenge
            THEN /\ last'.err = ErrChallengeMismatch
                 /\ last'.err \notin {ErrChallengeExpired, ErrChallengeNotFound}
                 /\ pending' = pending
            ELSE last'.err = ErrNone]_vars

\* C8 witness: a right response was accepted after a wrong one
C8_Witness ==
  /\ last.op = "VerifyResponse"
  /\ last.err = ErrNone
  /\ wrong[last.email]

\* =================================================== team operations
\* package models, package config, package action (team.go, init)

Roles == {"dev", "staging-access", "prod-access", "admin"}
\* Role.IsValid
IsValid(role) == role \in Roles

\* the roles team grant / team ungrant are asked for
GrantInputs == {"admin", "root"}

\* cfg.Identity.PublicKey of whoever runs the command
AdminKey == "age1a"
OperatorKeys == {"age1a", "age1b"}
\* passes the prefix-and-length test, is not an X25519 recipient
MalformedKey == "age1malformed"
\* an address outside cfg.Org.AllowedDomain
OutsideEmail == "eve@other"
AllowedDomain == "corp"
DomainOf(email) == IF email = OutsideEmail THEN "other" ELSE "corp"

\* Config.IsAllowedEmail
IsAllowedEmail(email) == AllowedDomain = "" \/ DomainOf(email) = AllowedDomain

\* pubKey == "" || len(pubKey) < 10 || pubKey[:4] != "age1", negated
HasKeyFormat(key) == key \in Keys \cup GeneratedKeys \cup {MalformedKey}

ErrNoCurrentUser == "current user not found in team"
ErrPermissionDenied == "permission denied"
ErrDomain == "email domain not allowed"
ErrInvalidRole == "invalid role"
ErrKeyRequired == "public key is required"
ErrUserExists == "user already exists"
ErrUserNotFound == "user not found"
ErrNotPending == "user is not pending verification"
ErrRevokeSelf == "cannot revoke your own access"
ErrHasRole == "user already has role"
ErrOwnAdmin == "cannot remove your own admin role"
ErrNoRole == "user does not have role"
ErrLastRole == "cannot remove last role"
ErrInitialized == "already initialized"
ErrIO == "write failed"

\* models.User; verification_pending is Metadata["verification_pending"]
NewUser(email, publicKey, roles, isPending) ==
  [email |-> email, publicKey |-> publicKey, roles |-> roles,
   verification_pending |-> isPending]

\* User.HasRole(RoleAdmin)
IsAdmin(u) == "admin" \in u.roles

\* User.IsPendingVerification
IsPendingVerification(u) == u.verification_pending

\* User.SetVerified
SetVerified(u) == [u EXCEPT !.verification_pending = FALSE]

\* index of the first user with that email, 0 when there is none
FindUser(us, email) ==
  IF \E i \in 1..Len(us) : us[i].email = email
  THEN CHOOSE i \in 1..Len(us) :
         /\ us[i].email = email
         /\ \A j \in 1..(i - 1) : us[j].email # email
  ELSE 0

\* getCurrentUser: index of the first user whose key is the operator's
getCurrentUser(us, opKey) ==
  IF \E i \in 1..Len(us) : us[i].publicKey = opKey
  THEN CHOOSE i \in 1..Len(us) :
         /\ us[i].publicKey = opKey
         /\ \A j \in 1..(i - 1) : us[j].publicKey # opKey
  ELSE 0

RosterLine(key, label) == [key |-> key, label |-> label]

\* an updateRecipientsFile that writes every user that has a key
updateRecipientsFile_NoPendingCheck(us) ==
  LET keep == SelectSeq(us, LAMBDA u : u.publicKey # NoKey) IN
  [i \in 1..Len(keep) |-> RosterLine(keep[i].publicKey, keep[i].email)]

\* updateRecipientsFile: one line per user with a key and not pending
updateRecipientsFile(us) ==
  LET keep == SelectSeq(us, LAMBDA u :
                  u.publicKey # NoKey /\ ~IsPendingVerification(u)) IN
  [i \in 1..Len(keep) |-> RosterLine(keep[i].publicKey, keep[i].email)]

\* the files a handler leaves behind, and what it returns
Result(us, ro, pv, nc, err) ==
  [users |-> us, roster |-> ro, pending |-> pv, next |-> nc, err |-> err]

\* write number k of a handler is reached and succeeds
Written(fail, k) == fail = 0 \/ fail > k
\* the error of a handler that attempts n writes
WriteErr(fail, n) == IF fail \in 1..n THEN ErrIO ELSE ErrNone

\* a gate that lets every member through
AdminGate_AnyMember(us, opKey) ==
  IF getCurrentUser(us, opKey) = 0 THEN ErrNoCurrentUser ELSE ErrNone

\* the admin gate every team command opens with
AdminGate(us, opKey) ==
  LET cur == getCurrentUser(us, opKey) IN
  IF cur = 0 THEN ErrNoCurrentUser
  ELSE IF ~IsAdmin(us[cur]) THEN ErrPermissionDenied
  ELSE ErrNone

\* TeamInvite, the branch for an email that is already a user
InviteExisting(us, ro, pv, nc, i, roles, choice, key, fail) ==
  LET merged == [us EXCEPT ![i].roles = @ \cup roles]
      asked == us[i].publicKey = NoKey
      badKey == asked /\ choice = "2" /\ ~HasKeyFormat(key)
      withKey == IF asked /\ choice \in {"1", "2"}
                 THEN [merged EXCEPT ![i].publicKey = key]
                 ELSE merged
      n == IF withKey[i].publicKey # NoKey THEN 2 ELSE 1
  IN
  IF badKey THEN Result(us, ro, pv, nc, ErrInvalidKey)
  ELSE Result(IF Written(fail, 1) THEN withKey ELSE us,
              IF withKey[i].publicKey # NoKey /\ Written(fail, 2)
              THEN updateRecipientsFile(withKey) ELSE ro,
              pv, nc, WriteErr(fail, n))

\* TeamInvite, choice 2 with key ownership verification required
InvitePending(us, ro, pv, nc, t, email, roles, key, fail) ==
  LET rec == NewPendingVerification(email, key, nc, t)
      added == Append(us, NewUser(email, key, roles, TRUE))
  IN
  Result(IF Written(fail, 2) THEN added ELSE us,
         ro,
         IF Written(fail, 1) THEN savePendingVerification(pv, rec) ELSE pv,
         nc + 1, WriteErr(fail, 2))

\* TeamInvite, the user is added directly
InviteDirect(us, ro, pv, nc, email, roles, key, fail) ==
  LET added == Append(us, NewUser(email, key, roles, FALSE))
      n == IF key # NoKey THEN 2 ELSE 1
  IN
  Result(IF Written(fail, 1) THEN added ELSE us,
         IF key # NoKey /\ Written(fail, 2)
         THEN updateRecipientsFile(added) ELSE ro,
         pv, nc, WriteErr(fail, n))

\* TeamInvite: what "passbook team invite EMAIL --role ..." does, given the
\* answers typed at its prompts (choice, key, verify)
TeamInviteResult(us, ro, pv, nc, t, opKey, email, roles, choice, key, verify, fail) ==
  LET same == Result(us, ro, pv, nc, ErrNone)
      i == FindUser(us, email)
  IN
  IF AdminGate(us, opKey) # ErrNone
    THEN [same EXCEPT !.err = AdminGate(us, opKey)]
  ELSE IF ~IsAllowedEmail(email) THEN [same EXCEPT !.err = ErrDomain]
  ELSE IF \E r \in roles : ~IsValid(r) THEN [same EXCEPT !.err = ErrInvalidRole]
  ELSE IF i # 0
    THEN InviteExisting(us, ro, pv, nc, i, roles, choice, key, fail)
  ELSE IF choice = "2" /\ key = NoKey THEN [same EXCEPT !.err = ErrKeyRequired]
  ELSE IF choice = "2" /\ ~ValidatePublicKey(key)
    THEN [same EXCEPT !.err = ErrInvalidKey]
  ELSE IF choice = "2" /\ verify
    THEN InvitePending(us, ro, pv, nc, t, email, roles, key, fail)
  ELSE InviteDirect(us, ro, pv, nc, email, roles,
                    IF choice = "3" THEN NoKey ELSE key, fail)

\* TeamAddVerified: "passbook team add-verified EMAIL PUBLIC_KEY --role ..."
\* (the re-encryption it offers rewrites secret files only)
TeamAddVerifiedResult(us, ro, pv, nc, opKey, email, roles, key, fail) ==
  LET same == Result(us, ro, pv, nc, ErrNone)
      added == Append(us, NewUser(email, key, roles, FALSE))
  IN
  IF AdminGate(us, opKey) # ErrNone
    THEN [same EXCEPT !.err = AdminGate(us, opKey)]
  ELSE IF ~IsAllowedEmail(email) THEN [same EXCEPT !.err = ErrDomain]
  ELSE IF ~ValidatePublicKey(key) THEN [same EXCEPT !.err = ErrInvalidKey]
  ELSE IF \E r \in roles : ~IsValid(r) THEN [same EXCEPT !.err = ErrInvalidRole]
  ELSE IF FindUser(us, email) # 0 THEN [same EXCEPT !.err = ErrUserExists]
  ELSE Result(IF Written(fail, 1) THEN added ELSE us,
              IF Written(fail, 2) THEN updateRecipientsFile(added) ELSE ro,
              pv, nc, WriteErr(fail, 2))

\* a TeamVerify that saves the users file before it asks the verifier
TeamVerifyWrites_FlagFirst(us, ro, pv, t, i, email, response, fail) ==
  LET verr == VerifyResponseErr(pv, t, email, response)
      verified == [us EXCEPT ![i] = SetVerified(@)]
  IN
  IF verr # ErrNone
  THEN Result(us, ro,
              IF Written(fail, 1)
              THEN VerifyResponseFile(pv, t, email, response) ELSE pv,
              0, verr)
  ELSE Result(IF Written(fail, 1) THEN verified ELSE us,
              IF Written(fail, 3) THEN updateRecipientsFile(verified) ELSE ro,
              IF Written(fail, 2)
              THEN VerifyResponseFile(pv, t, email, response) ELSE pv,
              0, WriteErr(fail, 3))

\* TeamVerify from the call of VerifyResponse on: the verifier removes the
\* record (write 1), then saveUsers (write 2), then updateRecipientsFile
\* (write 3)
TeamVerifyWrites(us, ro, pv, t, i, email, response, fail) ==
  LET verr == VerifyResponseErr(pv, t, email, response)
      verified == [us EXCEPT ![i] = SetVerified(@)]
  IN
  IF verr # ErrNone
  THEN Result(us, ro,
              IF Written(fail, 1)
              THEN VerifyResponseFile(pv, t, email, response) ELSE pv,
              0, verr)
  ELSE Result(IF Written(fail, 2) THEN verified ELSE us,
              IF Written(fail, 3) THEN updateRecipientsFile(verified) ELSE ro,
              IF Written(fail, 1)
              THEN VerifyResponseFile(pv, t, email, response) ELSE pv,
              0, WriteErr(fail, 3))

\* TeamVerify: "passbook team verify EMAIL RESPONSE"
TeamVerifyResult(us, ro, pv, nc, t, opKey, email, response, fail) ==
  LET same == Result(us, ro, pv, nc, ErrNone)
      i == FindUser(us, email)
  IN
  IF AdminGate(us, opKey) # ErrNone
    THEN [same EXCEPT !.err = AdminGate(us, opKey)]
  ELSE IF i = 0 THEN [same EXCEPT !.err = ErrUserNotFound]
  ELSE IF ~IsPendingVerification(us[i]) THEN [same EXCEPT !.err = ErrNotPending]
  ELSE [TeamVerifyWrites(us, ro, pv, t, i, email, response, fail)
          EXCEPT !.next = nc]

\* a TeamRevoke that lets the operator revoke their own record
TeamRevokeResult_SelfAllowed(us, ro, pv, nc, opKey, email, confirm, fail) ==
  LET same == Result(us, ro, pv, nc, ErrNone)
      newUsers == SelectSeq(us, LAMBDA u : u.email # email)
  IN
  IF AdminGate(us, opKey) # ErrNone
    THEN [same EXCEPT !.err = AdminGate(us, opKey)]
  ELSE IF Len(newUsers) = Len(us) THEN [same EXCEPT !.err = ErrUserNotFound]
  ELSE IF ~confirm THEN same
  ELSE Result(IF Written(fail, 1) THEN newUsers ELSE us,
              IF Written(fail, 2) THEN updateRecipientsFile(newUsers) ELSE ro,
              pv, nc, WriteErr(fail, 2))

\* TeamRevoke: "passbook team revoke EMAIL", confirmed or not at its prompt
\* (the re-encryption it offers rewrites secret files only)
TeamRevokeResult(us, ro, pv, nc, opKey, email, confirm, fail) ==
  LET same == Result(us, ro, pv, nc, ErrNone)
      cur == getCurrentUser(us, opKey)
      newUsers == SelectSeq(us, LAMBDA u : u.email # email)
  IN
  IF AdminGate(us, opKey) # ErrNone
    THEN [same EXCEPT !.err = AdminGate(us, opKey)]
  ELSE IF us[cur].email = email THEN [same EXCEPT !.err = ErrRevokeSelf]
  ELSE IF Len(newUsers) = Len(us) THEN [same EXCEPT !.err = ErrUserNotFound]
  ELSE IF ~confirm THEN same
  ELSE Result(IF Written(fail, 1) THEN newUsers ELSE us,
              IF Written(fail, 2) THEN updateRecipientsFile(newUsers) ELSE ro,
              pv, nc, WriteErr(fail, 2))

\* TeamGrant: "passbook team grant EMAIL ROLE"
TeamGrantResult(us, ro, pv, nc, opKey, email, role, fail) ==
  LET same == Result(us, ro, pv, nc, ErrNone)
      i == FindUser(us, email)
  IN
  IF AdminGate(us, opKey) # ErrNone
    THEN [same EXCEPT !.err = AdminGate(us, opKey)]
  ELSE IF ~IsValid(role) THEN [same EXCEPT !.err = ErrInvalidRole]
  ELSE IF i = 0 THEN [same EXCEPT !.err = ErrUserNotFound]
  ELSE IF role \in us[i].roles THEN [same EXCEPT !.err = ErrHasRole]
  ELSE Result(IF Written(fail, 1)
              THEN [us EXCEPT ![i].roles = @ \cup {role}] ELSE us,
              ro, pv, nc, WriteErr(fail, 1))

\* TeamUngrant: "passbook team ungrant EMAIL ROLE"
TeamUngrantResult(us, ro, pv, nc, opKey, email, role, fail) ==
  LET same == Result(us, ro, pv, nc, ErrNone)
      cur == getCurrentUser(us, opKey)
      i == FindUser(us, email)
  IN
  IF AdminGate(us, opKey) # ErrNone
    THEN [same EXCEPT !.err = AdminGate(us, opKey)]
  ELSE IF us[cur].email = email /\ role = "admin"
    THEN [same EXCEPT !.err = ErrOwnAdmin]
  ELSE IF ~IsValid(role) THEN [same EXCEPT !.err = ErrInvalidRole]
  ELSE IF i = 0 THEN [same EXCEPT !.err = ErrUserNotFound]
  ELSE IF role \notin us[i].roles THEN [same EXCEPT !.err = ErrNoRole]
  ELSE IF us[i].roles \ {role} = {} THEN [same EXCEPT !.err = ErrLastRole]
  ELSE Result(IF Written(fail, 1)
              THEN [us EXCEPT ![i].roles = @ \ {role}] ELSE us,
              ro, pv, nc, WriteErr(fail, 1))

\* ------------------------------------------------------- team actions

\* the write of a handler that fails (0: none); a handler has at most 3
Fails == IF faults > 0 THEN 0..3 ELSE {0}

\* the role list team invite and team add-verified are given: --role dev
InviteRoles == {{"dev"}}
Choices == {"1", "2", "3"}
\* the answers to "Require key ownership verification?", asked on choice 2
VerifyInputs(choice) == IF choice = "2" THEN BOOLEAN ELSE {FALSE}

\* what the prompts of team invite can be answered with, per choice; the
\* key that is no age key is entered for an invitation that verifies it
KeyInputs(choice, verify) ==
  IF choice = "1"
  THEN {g \in GeneratedKeys : \A i \in 1..Len(users) : users[i].publicKey # g}
  ELSE IF choice = "2"
  THEN ClaimedKeys \cup {NoKey} \cup (IF verify THEN {MalformedKey} ELSE {})
  ELSE {NoKey}

\* the challenge numbers an invitee can answer team verify with
TeamResponses == 1..(MaxInvites + 1)

\* a handler's result becomes the new content of the files; of the team
\* commands, last keeps the latest one that returned nil or wrote a file
Apply(r, op, email, arg, fail) ==
  /\ users' = r.users
  /\ roster' = r.roster
  /\ pending' = r.pending
  /\ nextChallenge' = r.next
  /\ last' = IF \/ r.err = ErrNone
               \/ <<r.users, r.roster, r.pending>> # <<users, roster, pending>>
             THEN Outcome(op, email, arg, r.err)
             ELSE last
  /\ faults' = IF \/ r.err = ErrIO
                  \/ fail # 0 /\ r.err = ErrChallengeExpired /\ r.pending = pending
               THEN faults - 1 ELSE faults
  /\ UNCHANGED <<now, issued, wrong, verifiedWith, store>>
  /\ UNCHANGED secretVars

\* Init: "passbook init", run by the first admin
InitStore(opKey, fail) ==
  /\ IF store # "none"
     THEN UNCHANGED <<users, roster, store, last, faults>>
     ELSE /\ store' = "init"
          /\ roster' = IF Written(fail, 1)
                       THEN <<RosterLine(opKey, "admin (initial setup)")>>
                       ELSE roster
          /\ users' = IF Written(fail, 2)
                      THEN <<NewUser(AdminEmail, opKey, {"admin"}, FALSE)>>
                      ELSE users
          /\ last' = Outcome("Init", AdminEmail, 0, WriteErr(fail, 2))
          /\ faults' = IF fail \in 1..2 THEN faults - 1 ELSE faults
  /\ UNCHANGED <<pending, now, nextChallenge, issued, wrong, verifiedWith>>
  /\ UNCHANGED secretVars

\* initWithArgs: the store "passbook setup" creates
SetupInit(opKey, fail) ==
  /\ IF store # "none"
     THEN UNCHANGED <<roster, store, last, faults>>
     ELSE /\ store' = "setup"
          /\ roster' = IF Written(fail, 1)
                       THEN <<RosterLine(opKey, "admin")>>
                       ELSE roster
          /\ last' = Outcome("Setup", "", 0, WriteErr(fail, 1))
          /\ faults' = IF fail = 1 THEN faults - 1 ELSE faults
  /\ UNCHANGED <<users, pending, now, nextChallenge, issued, wrong,
                 verifiedWith>>
  /\ UNCHANGED secretVars

TeamInvite(opKey, email, roles, choice, key, verify, fail) ==
  /\ (choice = "2" /\ verify) => nextChallenge <= MaxInvites
  /\ Len(users) < MaxUsers \/ FindUser(users, email) # 0
  /\ Apply(TeamInviteResult(users, roster, pending, nextChallenge, now,
                            opKey, email, roles, choice, key, verify, fail),
           "TeamInvite", email, 0, fail)

TeamAddVerified(opKey, email, roles, key, fail) ==
  /\ Len(users) < MaxUsers \/ FindUser(users, email) # 0
  /\ Apply(TeamAddVerifiedResult(users, roster, pending, nextChallenge,
                                 opKey, email, roles, key, fail),
           "TeamAddVerified", email, 0, fail)

TeamVerify(opKey, email, response, fail) ==
  Apply(TeamVerifyResult(users, roster, pending, nextChallenge, now,
                         opKey, email, response, fail),
        "TeamVerify", email, response, fail)

TeamRevoke(opKey, email, confirm, fail) ==
  Apply(TeamRevokeResult(users, roster, pending, nextChallenge,
                         opKey, email, confirm, fail),
        "TeamRevoke", email, 0, fail)

TeamGrant(opKey, email, role, fail) ==
  Apply(TeamGrantResult(users, roster, pending, nextChallenge,
                        opKey, email, role, fail),
        "TeamGrant", email, 0, fail)

TeamUngrant(opKey, email, role, fail) ==
  Apply(TeamUngrantResult(users, roster, pending, nextChallenge,
                          opKey, email, role, fail),
        "TeamUngrant", email, 0, fail)

\* the challenges issued so far outlive their TTL
Wait ==
  /\ pending # <<>>
  /\ now + ChallengeTTL + TickHours <= MaxTime
  /\ now' = now + ChallengeTTL + TickHours
  /\ last' = Outcome("Wait", "", 0, ErrNone)
  /\ UNCHANGED <<pending, nextChallenge, issued, wrong, verifiedWith>>
  /\ UNCHANGED teamVars

InitCommon ==
  /\ pending = <<>>
  /\ now = 0
  /\ nextChallenge = 1
  /\ issued = [e \in Emails |-> {}]
  /\ wrong = [e \in Emails |-> FALSE]
  /\ verifiedWith = [e \in Emails |-> 0]
  /\ last = Outcome("start", "", 0, ErrNone)
  /\ users = <<>>
  /\ roster = <<>>
  /\ store = "none"
  /\ InitSecrets

\* an empty store path, file writes succeed
Init == InitCommon /\ faults = 0

\* an empty store path, any file write can fail
InitFaults == InitCommon /\ faults = MaxFaults

\* the operators whose key is the key of a team member
Members(ops) == {k \in ops : getCurrentUser(users, k) # 0}

\* one team command, or the clock; ops are the operators at work, emails
\* the addresses members are added under.  The commands that add and
\* verify members are tried by operators that are team members, the
\* others by every operator.
TeamNext(ops, emails) ==
  \/ \E f \in Fails : InitStore(AdminKey, f)
  \/ \E f \in Fails : SetupInit(AdminKey, f)
  \/ \E op \in Members(ops), e \in emails, rs \in InviteRoles,
        ch \in Choices, f \in Fails :
       \E v \in VerifyInputs(ch) : \E k \in KeyInputs(ch, v) :
         TeamInvite(op, e, rs, ch, k, v, f)
  \/ \E op \in Members(ops), e \in emails \cup {OutsideEmail},
        rs \in InviteRoles, k \in ClaimedKeys, f \in Fails :
       TeamAddVerified(op, e, rs, k, f)
  \/ \E op \in Members(ops), e \in emails, r \in TeamResponses,
        f \in Fails :
       TeamVerify(op, e, r, f)
  \/ \E op \in ops, e \in Emails, c \in BOOLEAN, f \in Fails :
       TeamRevoke(op, e, c, f)
  \/ \E op \in ops, e \in Emails, r \in GrantInputs, f \in Fails :
       TeamGrant(op, e, r, f)
  \/ \E op \in ops, e \in Emails, r \in GrantInputs, f \in Fails :
       TeamUngrant(op, e, r, f)
  \/ Wait

Next == TeamNext(OperatorKeys, InviteEmails)

Spec == Init /\ [][Next]_vars

\* the first admin alone at work, one invitee, on a disk that can fail
NextFaults == TeamNext({AdminKey}, {"carol@corp"})

SpecFaults == InitFaults /\ [][NextFaults]_vars

\* ------------------------------------------- claims on the team operations

RosterKeys(ro) == {ro[j].key : j \in 1..Len(ro)}
RosterLabels(ro) == {ro[j].label : j \in 1..Len(ro)}
UserEmails(us) == {us[i].email : i \in 1..Len(us)}
PendingUsers(us) == {i \in 1..Len(us) : IsPendingVerification(us[i])}

\* C1: in every state the team operations reach, no key listed in the
\* recipients roster is the key of a user whose record is
\* verification_pending.
C1_NoPendingKeyInRoster ==
  \A i \in PendingUsers(users) : users[i].publicKey \notin RosterKeys(roster)

\* the user record stored under an email is verification_pending
PendingEmail(us, e) ==
  \E i \in 1..Len(us) : us[i].email = e /\ IsPendingVerification(us[i])

\* the pending-verification record of e holds this response and is not expired
Answers(pv, t, e, response) ==
  /\ HasRecord(pv, e)
  /\ RecordOf(pv, e).challenge = response
  /\ t <= RecordOf(pv, e).expiresAt

C7_ConsumedMeansVerified ==
  [][\A e \in Emails :
       (/\ last'.op = "TeamVerify"
        /\ last'.email = e
        /\ Answers(pending, now, e, last'.arg)
        /\ ~HasRecord(pending', e))
         => ~PendingEmail(users', e)]_vars

\* the keys of the users that hold a non-empty, non-pending key
VerifiedKeys(us) ==
  {us[i].publicKey : i \in {j \in 1..Len(us) :
      us[j].publicKey # NoKey /\ ~IsPendingVerification(us[j])}}

\* C9: once the store is initialised, the roster holds exactly the keys of
\* the users with a non-empty, non-pending key.
C9_RosterExact ==
  store # "none" => RosterKeys(roster) = VerifiedKeys(users)

\* =================================================== secret writers
\* package action (cred, env, access), package store, package age

AccessLevels == {"read", "write"}

ErrInvalidRecipient == "invalid recipient"
ErrNoRecipients == "no recipients specified"

\* the elements of a list
Range(seq) == {seq[i] : i \in 1..Len(seq)}

\* a Role.CanAccessStage that opens every stage to staging-access
RoleCanAccessStage_StagingAll(role, stage) ==
  \/ role \in {"admin", "prod-access", "staging-access"}
  \/ role = "dev" /\ stage = "dev"

\* Role.CanAccessStage
RoleCanAccessStage(role, stage) ==
  \/ role \in {"admin", "prod-access"}
  \/ role = "staging-access" /\ stage \in {"dev", "staging"}
  \/ role = "dev" /\ stage = "dev"

\* User.CanAccessStage, and the loop over user.Roles of the env commands
CanAccessStage(u, stage) == \E r \in u.roles : RoleCanAccessStage(r, stage)

\* the loop over currentUser.Roles of the access commands
CanWriteCredentials(u) == \E r \in u.roles : r \in {"admin", "prod-access"}

\* the public keys of a list of users, in order
PublicKeys(us) == [i \in 1..Len(us) |-> us[i].publicKey]

\* "Always include self": append the operator's key unless it is listed
IncludeSelf(keys, self) ==
  IF self # NoKey /\ self \notin Range(keys) THEN Append(keys, self)
  ELSE keys

\* Action.getAllRecipientKeys: every user that has a key, then self
getAllRecipientKeys(us, self) ==
  IncludeSelf(PublicKeys(SelectSeq(us, LAMBDA u : u.publicKey # NoKey)), self)

\* Action.getStageRecipients: every user that has a key and a role that
\* can access the stage, then self
getStageRecipients(us, stage, self) ==
  IncludeSelf(PublicKeys(SelectSeq(us,
                LAMBDA u : u.publicKey # NoKey /\ CanAccessStage(u, stage))),
              self)

\* models.NewSecretPermissions
NewSecretPermissions ==
  [isNil |-> FALSE, recipients |-> <<>>, useRoleBasedAccess |-> FALSE]

\* models.RecipientPermission
RecipientPermission(email, publicKey, access) ==
  [email |-> email, publicKey |-> publicKey, access |-> access]

\* SecretPermissions.Count
Count(p) == Len(p.recipients)

\* SecretPermissions.HasRecipient
HasRecipient(p, email) ==
  \E i \in 1..Count(p) : p.recipients[i].email = email

\* SecretPermissions.AddRecipient: the first entry with that email or that
\* key gets the new access level, otherwise an entry is appended
AddRecipient(p, email, publicKey, access) ==
  LET hit(i) == \/ p.recipients[i].email = email
                \/ p.recipients[i].publicKey = publicKey IN
  IF \E i \in 1..Count(p) : hit(i)
  THEN LET i == CHOOSE i \in 1..Count(p) :
                  hit(i) /\ \A j \in 1..(i - 1) : ~hit(j) IN
       [p EXCEPT !.recipients[i].access = access]
  ELSE [p EXCEPT !.recipients =
          Append(@, RecipientPermission(email, publicKey, access))]

\* SecretPermissions.RemoveRecipient: drops the first entry with that email
RemoveRecipient(p, email) ==
  IF ~HasRecipient(p, email) THEN p
  ELSE LET i == CHOOSE i \in 1..Count(p) :
                  /\ p.recipients[i].email = email
                  /\ \A j \in 1..(i - 1) : p.recipients[j].email # email IN
       [p EXCEPT !.recipients = RemoveAt(@, i)]

\* SecretPermissions.GetReadRecipients: the key of every entry
GetReadRecipients(p) == PublicKeys(p.recipients)

\* Permissions != nil && !UseRoleBasedAccess && Count() > 0
UsesExplicitList(p) ==
  ~p.isNil /\ ~p.useRoleBasedAccess /\ Count(p) > 0

\* the entries of the explicit list that carry a key
ExplicitKeys(p) ==
  PublicKeys(SelectSeq(p.recipients, LAMBDA r : r.publicKey # NoKey))

\* Action.saveCredential: the list handed to Encrypt
saveCredential(us, self) == getAllRecipientKeys(us, self)

\* a saveCredentialWithPermissions that never looks at the flag
saveCredentialWithPermissions_IgnoreFlag(us, p, self) ==
  IncludeSelf(IF ~p.isNil /\ Count(p) > 0
              THEN ExplicitKeys(p)
              ELSE getAllRecipientKeys(us, self), self)

\* Action.saveCredentialWithPermissions: the list handed to Encrypt
saveCredentialWithPermissions(us, p, self) ==
  IncludeSelf(IF UsesExplicitList(p)
              THEN ExplicitKeys(p)
              ELSE getAllRecipientKeys(us, self), self)

\* Action.saveEnvFile: the list handed to Encrypt
saveEnvFile(us, stage, self) == getStageRecipients(us, stage, self)

\* Action.saveEnvFileWithPermissions: the list handed to Encrypt
saveEnvFileWithPermissions(us, p, stage, self) ==
  IncludeSelf(IF UsesExplicitList(p)
              THEN ExplicitKeys(p)
              ELSE getStageRecipients(us, stage, self), self)

\* rbac.Engine.GetAllRecipients: every user that has a key
GetAllRecipients(us) ==
  PublicKeys(SelectSeq(us, LAMBDA u : u.publicKey # NoKey))

\* Store.saveCredential: the keys it picks
StoreSaveCredentialKeys(us, p) ==
  IF UsesExplicitList(p) THEN GetReadRecipients(p) ELSE GetAllRecipients(us)

\* an Encrypt that does not stop on an empty recipient set
EncryptErr_NoEmptyTest(recipients, self) ==
  IF \E k \in (Range(recipients) \cup {self}) \ {NoKey} :
       ~ValidatePublicKey(k)
  THEN ErrInvalidRecipient
  ELSE ErrNone

\* Age.parseRecipients and the parse of self: blank entries are skipped,
\* any other entry has to be an X25519 recipient
EncryptErr(recipients, self) ==
  IF \E k \in (Range(recipients) \cup {self}) \ {NoKey} :
       ~ValidatePublicKey(k)
  THEN ErrInvalidRecipient
  ELSE IF (Range(recipients) \cup {self}) \ {NoKey} = {}
  THEN ErrNoRecipients
  ELSE ErrNone

\* an Encrypt that seals to the list as passed, self left out
EncryptRecipients_NoSelf(recipients, self) == Range(recipients) \ {NoKey}

\* Age.Encrypt: the recipients parsed, self appended, duplicates dropped
EncryptRecipients(recipients, self) ==
  (Range(recipients) \cup {self}) \ {NoKey}

\* Age.Decrypt of a file with the identity of self
CanDecrypt(file, self) == file.exists /\ self \in file.readers

\* ----------------------------------------------------- secret commands

\* the end of a writer of the credential: Encrypt is called with the list
\* and, when it succeeds, the file is written
WriteCredential(by, email, permissions, recipients, self) ==
  LET err == EncryptErr(recipients, self) IN
  /\ encryptCall' = EncryptCall(by, "cred", recipients, self, err)
  /\ cred' = IF err = ErrNone
             THEN SecretFile(permissions, 0,
                             EncryptRecipients(recipients, self))
             ELSE cred
  /\ last' = Outcome(by, email, 0, err)
  /\ UNCHANGED <<pending, now, nextChallenge, issued, wrong, verifiedWith,
                 users, roster, store, faults, envs, ageVars>>

\* the end of a writer of the env file of a stage
WriteEnvFile(by, email, stage, permissions, nvars, recipients, self) ==
  LET err == EncryptErr(recipients, self) IN
  /\ encryptCall' = EncryptCall(by, stage, recipients, self, err)
  /\ envs' = IF err = ErrNone
             THEN [envs EXCEPT ![stage] =
                     SecretFile(permissions, nvars,
                                EncryptRecipients(recipients, self))]
             ELSE envs
  /\ last' = Outcome(by, email, 0, err)
  /\ UNCHANGED <<pending, now, nextChallenge, issued, wrong, verifiedWith,
                 users, roster, store, faults, cred, ageVars>>

\* CredAdd: "passbook cred add"
CredAdd(opKey) ==
  /\ store # "none"
  /\ IF cred.exists THEN UNCHANGED vars
     ELSE WriteCredential("CredAdd", "", NilPermissions,
                          saveCredential(users, opKey), opKey)

\* CredEdit: "passbook cred edit"
CredEdit(opKey) ==
  /\ store # "none"
  /\ IF ~CanDecrypt(cred, opKey) THEN UNCHANGED vars
     ELSE WriteCredential("CredEdit", "", cred.permissions,
                          saveCredential(users, opKey), opKey)

\* the permissions an access grant saves: the flag cleared, the target
\* entered, the operator entered with write access unless listed
GrantedPermissions(p, target, access, currentUser) ==
  LET p0 == IF p.isNil THEN NewSecretPermissions ELSE p
      p1 == [p0 EXCEPT !.useRoleBasedAccess = FALSE]
      p2 == AddRecipient(p1, target.email, target.publicKey, access)
  IN IF HasRecipient(p2, currentUser.email) THEN p2
     ELSE AddRecipient(p2, currentUser.email, currentUser.publicKey, "write")

ErrReadFile == "failed to read file"
ErrDecrypt == "failed to decrypt"
ErrEncrypt == "failed to encrypt"
ErrWriteFile == "failed to write file"

ErrInvalidStage == "invalid stage"
ErrInvalidLevel == "invalid access level"
ErrNoPublicKey == "user has no public key"
ErrNoSuchFile == "no such file or directory"
ErrAccessDenied == "access denied"

\* loadCredential, loadEnvFile: the error of ReadFile or of Decrypt
LoadErr(file, self) ==
  IF ~file.exists THEN ErrNoSuchFile
  ELSE IF ~CanDecrypt(file, self) THEN ErrDecrypt
  ELSE ErrNone

\* a CredAccessGrant that looks the target and the credential up before
\* it checks the operator's roles
CredAccessGrantErr_LookupFirst(us, file, opKey, email, access) ==
  LET cu == getCurrentUser(us, opKey)
      t == FindUser(us, email) IN
  IF access \notin AccessLevels THEN ErrInvalidLevel
  ELSE IF cu = 0 THEN ErrNoCurrentUser
  ELSE IF t = 0 THEN ErrUserNotFound
  ELSE IF us[t].publicKey = NoKey THEN ErrNoPublicKey
  ELSE IF LoadErr(file, opKey) # ErrNone THEN LoadErr(file, opKey)
  ELSE IF ~CanWriteCredentials(us[cu]) THEN ErrPermissionDenied
  ELSE ErrNone

\* CredAccessGrant: the error it returns, from its checks in their order
CredAccessGrantErr(us, file, opKey, email, access) ==
  LET cu == getCurrentUser(us, opKey)
      t == FindUser(us, email) IN
  IF access \notin AccessLevels THEN ErrInvalidLevel
  ELSE IF cu = 0 THEN ErrNoCurrentUser
  ELSE IF ~CanWriteCredentials(us[cu]) THEN ErrPermissionDenied
  ELSE IF t = 0 THEN ErrUserNotFound
  ELSE IF us[t].publicKey = NoKey THEN ErrNoPublicKey
  ELSE LoadErr(file, opKey)

\* CredAccessGrant: "passbook cred access grant"
CredAccessGrant(opKey, email, access) ==
  LET cu == getCurrentUser(users, opKey)
      t == FindUser(users, email) IN
  /\ store # "none"
  /\ IF CredAccessGrantErr(users, cred, opKey, email, access) # ErrNone
     THEN UNCHANGED vars
     ELSE LET p == GrantedPermissions(cred.permissions, users[t], access,
                                      users[cu]) IN
          WriteCredential("CredAccessGrant", email, p,
                          saveCredentialWithPermissions(users, p, opKey),
                          opKey)

\* CredAccessRevoke: "passbook cred access revoke"
CredAccessRevoke(opKey, email) ==
  LET cu == getCurrentUser(users, opKey) IN
  /\ store # "none"
  /\ IF \/ cu = 0
        \/ ~CanWriteCredentials(users[cu])
        \/ email = users[cu].email
        \/ ~CanDecrypt(cred, opKey)
        \/ cred.permissions.isNil
        \/ cred.permissions.useRoleBasedAccess
        \/ ~HasRecipient(cred.permissions, email)
     THEN UNCHANGED vars
     ELSE LET p == RemoveRecipient(cred.permissions, email) IN
          WriteCredential("CredAccessRevoke", email, p,
                          saveCredentialWithPermissions(users, p, opKey),
                          opKey)

\* loadEnvFile, or the empty env file a command starts from when the load
\* fails
LoadOrCreate(stage, self) ==
  IF CanDecrypt(envs[stage], self) THEN envs[stage]
  ELSE SecretFile(NilPermissions, 0, {})

\* EnvSet: "passbook env set"
EnvSet(opKey, stage) ==
  LET cu == getCurrentUser(users, opKey) IN
  /\ store # "none"
  /\ IF \/ stage \notin Stages
        \/ cu = 0
        \/ ~CanAccessStage(users[cu], stage)
     THEN UNCHANGED vars
     ELSE LET envFile == LoadOrCreate(stage, opKey) IN
          WriteEnvFile("EnvSet", "", stage, envFile.permissions, 1,
                       saveEnvFile(users, stage, opKey), opKey)

\* EnvRemove: "passbook env rm"
EnvRemove(opKey, stage) ==
  LET cu == getCurrentUser(users, opKey) IN
  /\ store # "none"
  /\ IF \/ stage \notin Stages
        \/ cu = 0
        \/ ~CanAccessStage(users[cu], stage)
        \/ ~CanDecrypt(envs[stage], opKey)
        \/ envs[stage].nvars = 0
     THEN UNCHANGED vars
     ELSE WriteEnvFile("EnvRemove", "", stage, envs[stage].permissions, 0,
                       saveEnvFile(users, stage, opKey), opKey)

\* EnvImport: "passbook env import" of a file that holds the variable
EnvImport(opKey, stage) ==
  LET cu == getCurrentUser(users, opKey) IN
  /\ store # "none"
  /\ IF \/ stage \notin Stages
        \/ cu = 0
        \/ ~CanAccessStage(users[cu], stage)
     THEN UNCHANGED vars
     ELSE LET envFile == LoadOrCreate(stage, opKey) IN
          WriteEnvFile("EnvImport", "", stage, envFile.permissions, 1,
                       saveEnvFile(users, stage, opKey), opKey)

\* EnvAccessGrant: the error it returns, from its checks in their order;
\* an env file that cannot be loaded is started anew
EnvAccessGrantErr(us, opKey, stage, email, access) ==
  LET cu == getCurrentUser(us, opKey)
      t == FindUser(us, email) IN
  IF stage \notin Stages THEN ErrInvalidStage
  ELSE IF access \notin AccessLevels THEN ErrInvalidLevel
  ELSE IF cu = 0 THEN ErrNoCurrentUser
  ELSE IF ~CanAccessStage(us[cu], stage) THEN ErrPermissionDenied
  ELSE IF t = 0 THEN ErrUserNotFound
  ELSE IF us[t].publicKey = NoKey THEN ErrNoPublicKey
  ELSE ErrNone

\* EnvAccessGrant: "passbook env access grant"
EnvAccessGrant(opKey, stage, email, access) ==
  LET cu == getCurrentUser(users, opKey)
      t == FindUser(users, email) IN
  /\ store # "none"
  /\ IF EnvAccessGrantErr(users, opKey, stage, email, access) # ErrNone
     THEN UNCHANGED vars
     ELSE LET envFile == LoadOrCreate(stage, opKey)
              p == GrantedPermissions(envFile.permissions, users[t], access,
                                      users[cu]) IN
          WriteEnvFile("EnvAccessGrant", email, stage, p, envFile.nvars,
                       saveEnvFileWithPermissions(users, p, stage, opKey),
                       opKey)

\* EnvShow: the error it returns, from its checks in their order
EnvShowErr(us, file, opKey, stage) ==
  LET cu == getCurrentUser(us, opKey) IN
  IF stage \notin Stages THEN ErrInvalidStage
  ELSE IF cu = 0 THEN ErrNoCurrentUser
  ELSE IF ~CanAccessStage(us[cu], stage) THEN ErrAccessDenied
  ELSE LoadErr(file, opKey)

\* EnvShow: "passbook env show PROJECT STAGE"; the variables are printed
EnvShow(opKey, stage) ==
  /\ store # "none"
  /\ IF EnvShowErr(users, envs[stage], opKey, stage) # ErrNone
     THEN UNCHANGED vars
     ELSE /\ last' = Outcome("EnvShow", "", envs[stage].nvars, ErrNone)
          /\ UNCHANGED <<pending, now, nextChallenge, issued, wrong,
                         verifiedWith>>
          /\ UNCHANGED teamVars

\* EnvAccessRevoke: "passbook env access revoke"
EnvAccessRevoke(opKey, stage, email) ==
  LET cu == getCurrentUser(users, opKey) IN
  /\ store # "none"
  /\ IF \/ stage \notin Stages
        \/ cu = 0
        \/ ~CanAccessStage(users[cu], stage)
        \/ email = users[cu].email
        \/ ~CanDecrypt(envs[stage], opKey)
        \/ envs[stage].permissions.isNil
        \/ envs[stage].permissions.useRoleBasedAccess
        \/ ~HasRecipient(envs[stage].permissions, email)
     THEN UNCHANGED vars
     ELSE LET p == RemoveRecipient(envs[stage].permissions, email) IN
          WriteEnvFile("EnvAccessRevoke", email, stage, p,
                       envs[stage].nvars,
                       saveEnvFileWithPermissions(users, p, stage, opKey),
                       opKey)

\* Action.ReEncryptAll: the list handed to the re-encryptor, the key of
\* every user that has one and is not pending
VerifiedRecipients(us) ==
  PublicKeys(SelectSeq(us, LAMBDA u : /\ u.publicKey # NoKey
                                      /\ ~IsPendingVerification(u)))

\* the error of the payload reader of filippo.io/age, passed on by
\* io.ReadAll
ErrPayload == "failed to decrypt and authenticate payload chunk"

\* age.Encrypt, Write, Close: a header with one stanza per recipient, a
\* nonce, and the payload in chunks that each carry a tag; an empty
\* plaintext is sealed as one empty chunk
Sealed(P, recps) ==
  [exists |-> TRUE, recipients |-> recps, header |-> TRUE, nonce |-> TRUE,
   chunks |-> IF P = <<>> THEN <<[data |-> <<>>, intact |-> TRUE]>>
              ELSE [i \in 1..Len(P) |-> [data |-> <<P[i]>>,
                                         intact |-> TRUE]]]

\* the concatenation of the data of the chunks 1..n
ChunkData(chunks, n) ==
  LET F[i \in 0..n] == IF i = 0 THEN <<>> ELSE F[i - 1] \o chunks[i].data
  IN F[n]

\* a single Read in the place of io.ReadAll: the first chunk only
ReadAll_OneRead(c) ==
  IF ~c.nonce \/ ~c.chunks[1].intact
  THEN [bytes |-> <<>>, err |-> ErrPayload]
  ELSE [bytes |-> c.chunks[1].data, err |-> ErrNone]

\* io.ReadAll(r) on the payload reader: the data read until the first
\* chunk that fails authentication, and that error; a nonce that was
\* altered gives another payload key, so that the first chunk fails
ReadAll(c) ==
  LET bad == {i \in 1..Len(c.chunks) : ~c.nonce \/ ~c.chunks[i].intact} IN
  IF bad = {} THEN [bytes |-> ChunkData(c.chunks, Len(c.chunks)),
                    err |-> ErrNone]
  ELSE LET first == CHOOSE i \in bad : \A j \in bad : i <= j IN
       [bytes |-> ChunkData(c.chunks, first - 1), err |-> ErrPayload]

\* the step of reEncryptFile an injected fault hits: ReadFile or WriteFile
FaultSteps == {"read", "write"}
NoFault == "none"

\* ReEncryptor.reEncryptFile: the error it returns, from the first of
\* ReadFile, Decrypt, Encrypt and WriteFile that fails
reEncryptFileErr(file, recipients, self, fault) ==
  IF fault = "read" THEN ErrReadFile
  ELSE IF ~CanDecrypt(file, self) THEN ErrDecrypt
  ELSE IF EncryptErr(recipients, self) # ErrNone THEN ErrEncrypt
  ELSE IF fault = "write" THEN ErrWriteFile
  ELSE ErrNone

\* the plaintext of a secret file, block by block: the permissions it
\* carries and its variables
SecretBytes(file) == <<file.permissions, file.nvars>>

\* the secret file that holds the bytes b, encrypted to readers; bytes
\* that stop short carry no variables, or no permissions either
SecretOfBytes(b, readers) ==
  SecretFile(IF Len(b) >= 1 THEN b[1] ELSE NilPermissions,
             IF Len(b) >= 2 THEN b[2] ELSE 0,
             readers)

\* a reEncryptFile that does not write back what it decrypted: a variable
\* is dropped from a file that holds one, added to a file that holds none
reEncryptFile_Altered(file, recipients, self, fault) ==
  IF reEncryptFileErr(file, recipients, self, fault) # ErrNone
  THEN file
  ELSE SecretOfBytes(<<file.permissions, 1 - file.nvars>>,
                     EncryptRecipients(recipients, self))

\* ReEncryptor.reEncryptFile: the file after ReadFile, Decrypt, Encrypt
\* to the list passed in and WriteFile; the file as it was when a step
\* fails (the WriteFile that fails is one that cannot open the path)
reEncryptFile(file, recipients, self, fault) ==
  IF reEncryptFileErr(file, recipients, self, fault) # ErrNone
  THEN file
  ELSE LET ciphertextRead == Sealed(SecretBytes(file), file.readers)
           plaintextRead == ReadAll(ciphertextRead).bytes
           newCiphertext == Sealed(plaintextRead,
                                   EncryptRecipients(recipients, self))
       IN SecretOfBytes(ReadAll(newCiphertext).bytes,
                        newCiphertext.recipients)

\* the order in which ReEncryptAll walks credentials/ and projects/
WalkOrder == <<"cred", "dev", "prod", "staging">>

\* the file a walk position names
FileAt(i) == IF WalkOrder[i] = "cred" THEN cred ELSE envs[WalkOrder[i]]

\* the fault that hits the file at walk position i
FaultAt(i, fail, step) == IF fail = i THEN step ELSE NoFault

\* reencrypt.Stats, Errors as the sequence of <<file, error>> appended
NewStats ==
  [TotalFiles |-> 0, SuccessfulFiles |-> 0, FailedFiles |-> 0,
   Errors |-> <<>>]

\* a callback that records the error of a file and does not count it
reEncryptDirFile_FailureUncounted(stats, i, recipients, self, fault) ==
  LET err == reEncryptFileErr(FileAt(i), recipients, self, fault) IN
  IF ~FileAt(i).exists THEN stats
  ELSE IF err # ErrNone
  THEN [stats EXCEPT !.TotalFiles = @ + 1,
                     !.Errors = Append(@, <<WalkOrder[i], err>>)]
  ELSE [stats EXCEPT !.TotalFiles = @ + 1,
                     !.SuccessfulFiles = @ + 1]

\* the callback of reEncryptDir on the .age file at walk position i
reEncryptDirFile(stats, i, recipients, self, fault) ==
  LET err == reEncryptFileErr(FileAt(i), recipients, self, fault) IN
  IF ~FileAt(i).exists THEN stats
  ELSE IF err # ErrNone
  THEN [stats EXCEPT !.TotalFiles = @ + 1,
                     !.FailedFiles = @ + 1,
                     !.Errors = Append(@, <<WalkOrder[i], err>>)]
  ELSE [stats EXCEPT !.TotalFiles = @ + 1,
                     !.SuccessfulFiles = @ + 1]

\* ReEncryptor.ReEncryptAll: the Stats after the walk has passed the
\* first n positions
RECURSIVE WalkStats(_, _, _, _, _)
WalkStats(n, recipients, self, fail, step) ==
  IF n = 0 THEN NewStats
  ELSE reEncryptDirFile(WalkStats(n - 1, recipients, self, fail, step),
                        n, recipients, self, FaultAt(n, fail, step))

\* what a command that re-encrypts leaves in last: the Stats it printed
\* and the key of the operator who ran it
ReEncryptOutcome(op, email, self, stats) ==
  [op |-> op, email |-> email, arg |-> stats.SuccessfulFiles,
   err |-> ErrNone, self |-> self, stats |-> stats]

\* ReEncryptor.ReEncryptAll(ctx, newRecipients) with the backend of opKey:
\* every file of the walk goes through reEncryptFile; the file at walk
\* position fail (0: none) cannot be read or written, as step says
ReEncryptStore(by, recipients, opKey, fail, step) ==
  LET opened == {i \in 1..Len(WalkOrder) :
                   /\ CanDecrypt(FileAt(i), opKey)
                   /\ FaultAt(i, fail, step) # "read"}
      err == EncryptErr(recipients, opKey) IN
  /\ cred' = reEncryptFile(cred, recipients, opKey, FaultAt(1, fail, step))
  /\ envs' = [s \in Stages |->
                reEncryptFile(envs[s], recipients, opKey,
                              IF fail # 0 /\ WalkOrder[fail] = s
                              THEN step ELSE NoFault)]
  /\ encryptCall' =
       IF opened = {} THEN encryptCall
       ELSE LET i == CHOOSE i \in opened : \A j \in opened : j <= i
            IN EncryptCall(by, WalkOrder[i], recipients, opKey, err)

\* ReEncryptAll: "passbook reencrypt --force"
ReEncryptAll(opKey, fail, step) ==
  LET recipients == VerifiedRecipients(users) IN
  /\ store # "none"
  /\ fail # 0 => FileAt(fail).exists
  /\ IF AdminGate(users, opKey) # ErrNone \/ Len(recipients) = 0
     THEN UNCHANGED vars
     ELSE /\ ReEncryptStore("ReEncryptAll", recipients, opKey, fail, step)
          /\ last' = ReEncryptOutcome("ReEncryptAll", "", opKey,
                         WalkStats(Len(WalkOrder), recipients, opKey,
                                   fail, step))
          /\ UNCHANGED <<pending, now, nextChallenge, issued, wrong,
                         verifiedWith, users, roster, store, faults, ageVars>>

\* a list that still holds the key of the member revoked
RemainingRecipients_Stale(us, email) == VerifiedRecipients(us)

\* TeamRevoke: the list its re-encryption is given, the key of every user
\* left in userList that has one and is not pending
RemainingRecipients(us, email) ==
  VerifiedRecipients(SelectSeq(us, LAMBDA u : u.email # email))

\* TeamRevoke with --reencrypt: "passbook team revoke EMAIL --reencrypt",
\* confirmed at its prompt; once the member is off the users file and the
\* roster, every secret is re-encrypted to the users that remain
TeamRevokeReencrypt(opKey, email, fail, step) ==
  LET r == TeamRevokeResult(users, roster, pending, nextChallenge,
                            opKey, email, TRUE, 0)
      i == FindUser(users, email)
      newRecipients == RemainingRecipients(users, email) IN
  /\ fail # 0 => FileAt(fail).exists
  /\ IF r.err # ErrNone \/ users[i].publicKey = NoKey
     THEN /\ fail = 0
          /\ Apply(r, "TeamRevoke", email, 0, 0)
     ELSE /\ users' = r.users
          /\ roster' = r.roster
          /\ ReEncryptStore("TeamRevoke", newRecipients, opKey, fail, step)
          /\ last' = ReEncryptOutcome("TeamRevoke", email, opKey,
                         WalkStats(Len(WalkOrder), newRecipients, opKey,
                                   fail, step))
          /\ UNCHANGED <<pending, now, nextChallenge, issued, wrong,
                         verifiedWith, store, faults, ageVars>>

\* ------------------------------------------- the team at work on secrets

\* the member invited while secrets are written
SecretInvitees == {"carol@corp"}
\* the stages and levels the commands are given
StageInputs == {"dev", "prod"}
AccessInputs == {"read"}

\* one command of an admin on the team, or one secret command of anybody
\* who holds the store
NextSecrets ==
  \/ InitStore(AdminKey, 0)
  \/ \E e \in SecretInvitees, k \in ClaimedKeys, v \in BOOLEAN :
       TeamInvite(AdminKey, e, {"dev"}, "2", k, v, 0)
  \/ \E e \in SecretInvitees, r \in TeamResponses :
       TeamVerify(AdminKey, e, r, 0)
  \/ \E op \in OperatorKeys : CredAdd(op)
  \/ \E op \in OperatorKeys : CredEdit(op)
  \/ \E op \in OperatorKeys, e \in SecretInvitees, a \in AccessInputs :
       CredAccessGrant(op, e, a)
  \/ \E op \in OperatorKeys, e \in SecretInvitees : CredAccessRevoke(op, e)
  \/ \E op \in OperatorKeys, s \in StageInputs : EnvSet(op, s)
  \/ \E op \in OperatorKeys, s \in StageInputs : EnvRemove(op, s)
  \/ \E op \in OperatorKeys, s \in StageInputs : EnvImport(op, s)
  \/ \E op \in OperatorKeys, s \in StageInputs, e \in SecretInvitees,
        a \in AccessInputs :
       EnvAccessGrant(op, s, e, a)
  \/ \E op \in OperatorKeys, s \in StageInputs, e \in SecretInvitees :
       EnvAccessRevoke(op, s, e)
  \/ \E op \in OperatorKeys : ReEncryptAll(op, 0, NoFault)

SpecSecrets == Init /\ [][NextSecrets]_vars

\* ------------------------------------------------ the store re-encrypted

\* the members invited, each with the key they hold and the role given:
\* a second admin and a developer
ReencryptInvites ==
  {<<"bob@corp", "age1b", {"admin"}>>, <<"carol@corp", "age1c", {"dev"}>>}
\* the stage whose env file is written
ReencryptStages == {"dev"}
\* the walk position a fault hits (0: none)
WalkFaults == 0..Len(WalkOrder)

\* a team that grows and shrinks while secrets are written and the store
\* is re-encrypted, by anybody who holds it
NextReencrypt ==
  \/ InitStore(AdminKey, 0)
  \/ \E op \in Keys, m \in ReencryptInvites :
       TeamInvite(op, m[1], m[3], "2", m[2], FALSE, 0)
  \/ \E op \in Keys : CredAdd(op)
  \/ \E op \in Keys, s \in ReencryptStages : EnvSet(op, s)
  \/ \E op \in Keys, e \in InviteEmails : TeamRevoke(op, e, TRUE, 0)
  \/ \E op \in Keys, m \in ReencryptInvites :
       TeamAddVerified(op, m[1], m[3], m[2], 0)
  \/ \E op \in Keys, e \in InviteEmails, r \in TeamResponses :
       TeamVerify(op, e, r, 0)
  \/ \E op \in Keys, e \in InviteEmails : TeamGrant(op, e, "dev", 0)
  \/ \E op \in Keys, e \in InviteEmails : TeamUngrant(op, e, "dev", 0)
  \/ \E op \in Keys, fail \in WalkFaults, step \in FaultSteps :
       ReEncryptAll(op, fail, step)
  \/ \E op \in Keys, e \in InviteEmails, fail \in WalkFaults,
        step \in FaultSteps :
       TeamRevokeReencrypt(op, e, fail, step)

SpecReencrypt == Init /\ [][NextReencrypt]_vars

\* ------------------------------------------------- access asked and denied

\* members come and go while a credential and the prod env file are
\* written, shown and shared, by anybody who holds the store
NextAccess ==
  \/ InitStore(AdminKey, 0)
  \/ \E m \in ReencryptInvites :
       TeamInvite(AdminKey, m[1], m[3], "2", m[2], FALSE, 0)
  \/ \E op \in Keys : CredAdd(op)
  \/ \E e \in InviteEmails : TeamRevoke(AdminKey, e, TRUE, 0)
  \/ \E op \in Keys : EnvSet(op, "prod")
  \/ \E op \in Keys, e \in InviteEmails, a \in AccessInputs :
       CredAccessGrant(op, e, a)
  \/ \E op \in Keys, e \in InviteEmails, a \in AccessInputs :
       EnvAccessGrant(op, "prod", e, a)
  \/ \E op \in Keys, s \in StageInputs : EnvShow(op, s)

SpecAccess == Init /\ [][NextAccess]_vars

\* ------------------------------------------- claims on the secret writers

\* the commands that write a secret
SecretWriters ==
  {"CredAdd", "CredEdit", "CredAccessGrant", "CredAccessRevoke",
   "EnvSet", "EnvRemove", "EnvImport", "EnvAccessGrant", "EnvAccessRevoke"}

\* C2: every secret write (credential add/edit, env set/remove/import,
\* access grant/revoke) encrypts only to verified keys: no key of a user
\* who is verification_pending at the time of the write is among the
\* recipients handed to Encrypt.  (A write leaves the users file as it
\* is, so right after the write the pending users are those of the time
\* of the write.)
C2_NoPendingRecipient ==
  last.op \in SecretWriters =>
    \A i \in 1..Len(users) :
      IsPendingVerification(users[i]) =>
        users[i].publicKey \notin Range(encryptCall.recipients)

\* ------------------------------------------- the resolver on its own
\* the three save functions applied to a secret that carries an explicit
\* list of one entry, for every team, operator and value of the flag

\* the key a member's own identity has
OwnKey(email) == IF email = "bob@corp" THEN "age1b" ELSE "age1c"

\* the members a team can hold besides its first admin
MemberInputs ==
  UNION {{NewUser(e, k, rs, FALSE) :
            k \in {OwnKey(e), NoKey}, rs \in {{"dev"}, {"prod-access"}}} :
         e \in InviteEmails}

\* the teams: the first admin, then members with distinct addresses
ResolverTeams ==
  LET admin == NewUser(AdminEmail, AdminKey, {"admin"}, FALSE)
      lists == UNION {[1..n -> MemberInputs] : n \in 0..(MaxTeam - 1)}
  IN {<<admin>> \o l : l \in
        {m \in lists : \A i, j \in 1..Len(m) :
                         i # j => m[i].email # m[j].email}}

\* the entry A of the explicit list: a team member or not, with a key
\* of its own, the key of an operator, a key age rejects, or no key
ExplicitInputs ==
  {RecipientPermission("bob@corp", k, "read") :
     k \in {"age1b", "age1c", MalformedKey, NoKey}}

InitResolver ==
  /\ pending = <<>>
  /\ now = 0
  /\ nextChallenge = 1
  /\ issued = [e \in Emails |-> {}]
  /\ wrong = [e \in Emails |-> FALSE]
  /\ verifiedWith = [e \in Emails |-> 0]
  /\ last = Outcome("start", "", 0, ErrNone)
  /\ users \in ResolverTeams
  /\ roster = updateRecipientsFile(users)
  /\ store = "init"
  /\ faults = 0
  /\ \E a \in ExplicitInputs, flag \in BOOLEAN :
       LET file == SecretFile([isNil |-> FALSE, recipients |-> <<a>>,
                               useRoleBasedAccess |-> flag], 0, {}) IN
       /\ cred = file
       /\ envs = [s \in Stages |-> file]
  /\ encryptCall = NoEncryptCall
  /\ InitAge

\* Action.saveCredentialWithPermissions(ctx, cred)
SaveCredentialWithPermissions(self) ==
  WriteCredential("saveCredentialWithPermissions", "", cred.permissions,
                  saveCredentialWithPermissions(users, cred.permissions,
                                                self), self)

\* Action.saveEnvFileWithPermissions(ctx, envFile)
SaveEnvFileWithPermissions(self, stage) ==
  WriteEnvFile("saveEnvFileWithPermissions", "", stage,
               envs[stage].permissions, envs[stage].nvars,
               saveEnvFileWithPermissions(users, envs[stage].permissions,
                                          stage, self), self)

\* Store.saveCredential(ctx, cred)
StoreSaveCredential(self) ==
  LET keys == StoreSaveCredentialKeys(users, cred.permissions) IN
  IF Len(keys) = 0
  THEN /\ last' = Outcome("Store.saveCredential", "", 0, ErrNoRecipients)
       /\ UNCHANGED <<pending, now, nextChallenge, issued, wrong,
                      verifiedWith, users, roster, store, faults>>
       /\ UNCHANGED secretVars
  ELSE WriteCredential("Store.saveCredential", "", cred.permissions, keys,
                       self)

\* use_role_based_access is flipped on the secret
SetRoleBasedAccess(flag) ==
  /\ cred.permissions.useRoleBasedAccess # flag
  /\ cred' = [cred EXCEPT !.permissions.useRoleBasedAccess = flag]
  /\ envs' = [s \in Stages |->
                [envs[s] EXCEPT !.permissions.useRoleBasedAccess = flag]]
  /\ last' = Outcome("SetRoleBasedAccess", "", 0, ErrNone)
  /\ UNCHANGED <<pending, now, nextChallenge, issued, wrong, verifiedWith,
                 users, roster, store, faults, encryptCall, ageVars>>

NextResolver ==
  \/ \E self \in OperatorKeys : SaveCredentialWithPermissions(self)
  \/ \E self \in OperatorKeys, s \in StageInputs :
       SaveEnvFileWithPermissions(self, s)
  \/ \E self \in OperatorKeys : StoreSaveCredential(self)
  \/ \E flag \in BOOLEAN : SetRoleBasedAccess(flag)

SpecResolver == InitResolver /\ [][NextResolver]_vars

\* the save functions that resolve a secret's recipients from its
\* permissions
Resolvers ==
  {"saveCredentialWithPermissions", "saveEnvFileWithPermissions",
   "Store.saveCredential"}

\* the permissions of the secret the latest Encrypt call was made for
TargetPermissions ==
  IF encryptCall.target = "cred" THEN cred.permissions
  ELSE envs[encryptCall.target].permissions

\* the set the latest Encrypt call encrypts to
Resolved == EncryptRecipients(encryptCall.recipients, encryptCall.self)

\* what role and stage membership alone give: every user that has a key
\* (credential), every user that has a key and a role that can access
\* the stage (env file), and the operator
RoleBasedRecipients(us, target, self) ==
  {us[i].publicKey :
     i \in {j \in 1..Len(us) :
              /\ us[j].publicKey # NoKey
              /\ target = "cred" \/ CanAccessStage(us[j], target)}}
  \cup {self}

\* C10: for a secret with explicit permissions
\* {use_role_based_access=false, recipients=[A:read]} the resolved
\* recipient set is exactly the key of A (when the entry has one) and the
\* operator's, whatever the team is; with use_role_based_access=true on
\* the same secret the resolved set is the one role and stage membership
\* give, whatever the explicit list holds.
C10_ResolverPrecedence ==
  (last.op \in Resolvers /\ encryptCall.called /\ encryptCall.by = last.op)
    => LET p == TargetPermissions IN
       /\ (~p.useRoleBasedAccess /\ Count(p) = 1
             /\ p.recipients[1].access = "read")
            => Resolved =
                 {p.recipients[1].publicKey, encryptCall.self} \ {NoKey}
       /\ p.useRoleBasedAccess
            => Resolved = RoleBasedRecipients(users, encryptCall.target,
                                              encryptCall.self)

\* an explicit list [A:read] has been resolved to A and the operator
\* while the team holds a member with another key
C10_Witness ==
  /\ last.op \in Resolvers
  /\ encryptCall.called
  /\ encryptCall.by = last.op
  /\ ~TargetPermissions.useRoleBasedAccess
  /\ TargetPermissions.recipients[1].publicKey
       \notin {NoKey, encryptCall.self}
  /\ Cardinality(Resolved) = 2
  /\ Len(users) = MaxTeam
  /\ \E i \in 1..Len(users) :
       users[i].publicKey \notin Resolved \cup {NoKey}

\* ------------------------------------ claims on the commands that rewrite

\* the commands that rewrite a secret that exists
Rewriters ==
  {"CredEdit", "CredAccessGrant", "CredAccessRevoke",
   "EnvSet", "EnvRemove", "EnvImport", "EnvAccessGrant", "EnvAccessRevoke"}

\* the latest effective command rewrote a secret and its write succeeded
Rewritten ==
  /\ last.op \in Rewriters
  /\ last.err = ErrNone
  /\ encryptCall.called
  /\ encryptCall.by = last.op

\* C11: for a secret whose permission list is non-empty with
\* use_role_based_access=false, every operation that rewrites the secret
\* (credential edit, env set/remove/import, access grant/revoke) encrypts
\* it to exactly the explicit recipients plus the operator, never to the
\* team-wide or stage-wide list.
C11_ExplicitExclusive ==
  (Rewritten /\ UsesExplicitList(TargetPermissions))
    => Resolved = Range(ExplicitKeys(TargetPermissions))
                    \cup {encryptCall.self}

\* the latest effective command wrote a secret and its write succeeded
Encrypted ==
  /\ last.op \in SecretWriters
  /\ last.err = ErrNone
  /\ encryptCall.called
  /\ encryptCall.by = last.op

\* the keys of the roster members (the users that hold a key and are not
\* verification_pending) that the target is open to: all of them for the
\* credential, those with a role that can access the stage for an env file
RosterMembers(us, target) ==
  {us[i].publicKey :
     i \in {j \in 1..Len(us) :
              /\ us[j].publicKey # NoKey
              /\ ~IsPendingVerification(us[j])
              /\ target = "cred" \/ CanAccessStage(us[j], target)}}

\* C12: under role-based access, a credential is encrypted to all roster
\* members and an env file at stage S is encrypted to exactly the roster
\* members holding at least one role that can access S (plus the
\* operator).
C12_RoleBasedRoster ==
  (Encrypted /\ ~UsesExplicitList(TargetPermissions))
    => Resolved = RosterMembers(users, encryptCall.target)
                    \cup {encryptCall.self}

\* SecretPermissions.CanWrite
CanWrite(p, email) ==
  \E i \in 1..Count(p) :
    /\ p.recipients[i].email = email
    /\ \A j \in 1..(i - 1) : p.recipients[j].email # email
    /\ p.recipients[i].access = "write"

\* Credential.CanUserWrite, EnvFile.CanUserWrite
CanUserWrite(file, email) ==
  IF ~UsesExplicitList(file.permissions) THEN TRUE
  ELSE CanWrite(file.permissions, email)

\* the user whose identity a command runs with may write the secret
OperatorCanWrite(file, self) ==
  LET cu == getCurrentUser(users, self) IN
  cu # 0 /\ CanUserWrite(file, users[cu].email)

\* C13: on a secret with active explicit permissions, only a user whose
\* entry has access write may modify or re-encrypt it; a user with access
\* read (or no entry) can never change the stored secret.
C13_OnlyWriteModifies ==
  [][/\ (cred.exists /\ cred' # cred)
          => OperatorCanWrite(cred, encryptCall'.self)
     /\ \A s \in Stages :
          (envs[s].exists /\ envs'[s] # envs[s])
            => OperatorCanWrite(envs[s], encryptCall'.self)]_vars

\* C14: after any successful per-secret access grant (credential or env
\* file), the secret has use_role_based_access=false and its explicit
\* list contains the current operator with write access.
C14_GrantKeepsOperatorWrite ==
  (Encrypted /\ last.op \in {"CredAccessGrant", "EnvAccessGrant"})
    => LET p == TargetPermissions
           cu == getCurrentUser(users, encryptCall.self) IN
       /\ ~p.isNil
       /\ ~p.useRoleBasedAccess
       /\ cu # 0
       /\ CanWrite(p, users[cu].email)

\* --------------------------------------------- the age backend on its own
\* Age.Encrypt applied to every backend, plaintext and recipient list, and
\* Age.Decrypt applied to what it returned by every backend; the
\* ciphertext can be altered between the two

MaxChunks == 2
MaxRecipients == 2

\* the private keys the identity files hold
Identities ==
  {"AGE-SECRET-KEY-1A", "AGE-SECRET-KEY-1B", "AGE-SECRET-KEY-1C"}

\* X25519Identity.Recipient().String()
Recipient(identity) ==
  CASE identity = "AGE-SECRET-KEY-1A" -> "age1a"
    [] identity = "AGE-SECRET-KEY-1B" -> "age1b"
    [] identity = "AGE-SECRET-KEY-1C" -> "age1c"

\* New(identityPath), NewWithPassphrase: the identity of the key file and
\* its public key (loadIdentity derives it; loadIdentityWithPassphrase
\* reads the line saveEncryptedIdentity wrote from the same identity)
New(identity) == [identity |-> identity, publicKey |-> Recipient(identity)]

ErrNoIdentity == "no identity found"
ErrDecryptionFailed == "decryption failed"
\* the plaintexts: a block stands for the bytes one payload chunk carries
Blocks == {"p", "q"}
Plaintexts == UNION {[1..n -> Blocks] : n \in 0..MaxChunks}

\* the recipient strings a caller passes: blank, padded, valid, malformed
RecipientInputs == {"", " age1b ", "age1c", MalformedKey}
RecipientLists == UNION {[1..n -> RecipientInputs] : n \in 0..MaxRecipients}

\* strings.TrimSpace
TrimSpace(r) == IF r = " age1b " THEN "age1b" ELSE r

\* parseRecipients, short of its error: every entry trimmed, the blank
\* ones skipped
parseRecipients(recipients) ==
  SelectSeq([i \in 1..Len(recipients) |-> TrimSpace(recipients[i])],
            LAMBDA r : r # NoKey)

\* a header that opens for any identity
OpensHeader_AnyIdentity(c, identity) == c.header

\* age.Decrypt(ciphertext, identity) returns a reader: the header is
\* whole and holds a stanza for the identity
OpensHeader(c, identity) ==
  c.header /\ Recipient(identity) \in c.recipients

\* Age.Decrypt(ctx, ciphertext): what it returns
DecryptResult(a, c) ==
  IF a.identity = NoIdentity THEN [bytes |-> <<>>, err |-> ErrNoIdentity]
  ELSE IF ~OpensHeader(c, a.identity)
  THEN [bytes |-> <<>>, err |-> ErrDecryptionFailed]
  ELSE ReadAll(c)

\* what Age.Encrypt and Age.Decrypt never touch
notAgeVars ==
  <<pending, now, nextChallenge, issued, wrong, verifiedWith, users, roster,
    store, faults, cred, envs, keyFile, rosterObject,
    recipientsFile>>

\* age.New(identityPath) on the key file of an identity
LoadIdentity(identity) ==
  /\ ageBackend' = New(identity)
  /\ last' = Outcome("New", "", 0, ErrNone)
  /\ UNCHANGED <<encryptCall, plaintext, ciphertext, decrypted>>
  /\ UNCHANGED notAgeVars

\* age.NewWithoutIdentity()
DropIdentity ==
  /\ ageBackend' = NewWithoutIdentity
  /\ last' = Outcome("NewWithoutIdentity", "", 0, ErrNone)
  /\ UNCHANGED <<encryptCall, plaintext, ciphertext, decrypted>>
  /\ UNCHANGED notAgeVars

\* Age.Encrypt(ctx, plaintext, recipients); the caller keeps the bytes it
\* returns, and returns itself when it returns an error.  A run applies
\* Encrypt once, to any plaintext and any list.
Encrypt(P, recipients) ==
  LET self == ageBackend.publicKey
      recps == parseRecipients(recipients)
      err == EncryptErr(recps, self) IN
  /\ ~encryptCall.called
  /\ encryptCall' = EncryptCall("Encrypt", "bytes", recipients, self, err)
  /\ plaintext' = P
  /\ ciphertext' = IF err = ErrNone
                   THEN Sealed(P, EncryptRecipients(recps, self))
                   ELSE ciphertext
  /\ last' = Outcome("Encrypt", "", 0, err)
  /\ UNCHANGED <<ageBackend, decrypted>>
  /\ UNCHANGED notAgeVars

\* one byte of the ciphertext is altered: in the header, in the nonce or
\* in chunk i of the payload
Alter(part, i) ==
  /\ ciphertext.exists
  /\ ciphertext.header /\ ciphertext.nonce
  /\ \A j \in 1..Len(ciphertext.chunks) : ciphertext.chunks[j].intact
  /\ \/ /\ part = "header" /\ i = 1
        /\ ciphertext' = [ciphertext EXCEPT !.header = FALSE]
     \/ /\ part = "nonce" /\ i = 1
        /\ ciphertext' = [ciphertext EXCEPT !.nonce = FALSE]
     \/ /\ part = "payload" /\ i <= Len(ciphertext.chunks)
        /\ ciphertext' = [ciphertext EXCEPT !.chunks[i].intact = FALSE]
  /\ last' = Outcome("Alter", "", 0, ErrNone)
  /\ UNCHANGED <<ageBackend, encryptCall, plaintext, decrypted>>
  /\ UNCHANGED notAgeVars

\* Age.Decrypt(ctx, ciphertext)
Decrypt ==
  /\ ciphertext.exists
  /\ LET r == DecryptResult(ageBackend, ciphertext) IN
     /\ decrypted' = [called |-> TRUE, bytes |-> r.bytes, err |-> r.err]
     /\ last' = Outcome("Decrypt", "", 0, r.err)
  /\ UNCHANGED <<ageBackend, encryptCall, plaintext, ciphertext>>
  /\ UNCHANGED notAgeVars

NextAge ==
  \/ \E identity \in Identities : LoadIdentity(identity)
  \/ DropIdentity
  \/ \E P \in Plaintexts, recipients \in RecipientLists :
       Encrypt(P, recipients)
  \/ \E part \in {"header", "nonce", "payload"}, i \in 1..MaxChunks :
       Alter(part, i)
  \/ Decrypt

SpecAge == Init /\ [][NextAge]_vars

\* ---------------------------------------------- claims on the age backend

\* the latest call is an Encrypt that returned a ciphertext
Produced == last.op = "Encrypt" /\ last.err = ErrNone

\* C15: every ciphertext produced by Encrypt with a loaded identity can be
\* decrypted by that same identity, whatever recipient list was passed:
\* the caller's own public key is always added to the recipient set.
C15_SelfCanDecrypt ==
  (Produced /\ ageBackend.identity # NoIdentity)
    => /\ ageBackend.publicKey \in ciphertext.recipients
       /\ DecryptResult(ageBackend, ciphertext) =
            [bytes |-> plaintext, err |-> ErrNone]

\* a ciphertext has been produced from a list that names another key only
C15_Witness ==
  /\ Produced
  /\ ageBackend.identity # NoIdentity
  /\ parseRecipients(encryptCall.recipients) # <<>>
  /\ ageBackend.publicKey \notin Range(parseRecipients(encryptCall.recipients))
  /\ Cardinality(ciphertext.recipients) = 2

\* the set the latest Encrypt call was left with after parsing, adding
\* self and dropping duplicates
SealedTo(call) ==
  EncryptRecipients(parseRecipients(call.recipients), call.self)

\* C16: encryption fails and writes nothing whenever the recipient set is
\* empty after deduplication and self-inclusion; no ciphertext is ever
\* produced that is encrypted to zero recipients.
C16_NoEmptyRecipients ==
  [][/\ (~encryptCall.called /\ encryptCall'.called
           /\ SealedTo(encryptCall') = {})
          => /\ encryptCall'.err = ErrNoRecipients
             /\ last'.err = ErrNoRecipients
             /\ ciphertext' = ciphertext
     /\ ciphertext'.exists => ciphertext'.recipients # {}]_vars

\* Encrypt was called without identity on a list of blank entries, and
\* returned the error
C16_Witness ==
  /\ last.op = "Encrypt"
  /\ encryptCall.called
  /\ encryptCall.recipients # <<>>
  /\ SealedTo(encryptCall) = {}
  /\ last.err = ErrNoRecipients
  /\ ~ciphertext.exists

\* no byte of the ciphertext has been altered
Intact(c) ==
  c.header /\ c.nonce /\ \A i \in 1..Len(c.chunks) : c.chunks[i].intact

\* C17: for all plaintexts P and non-empty recipient sets R containing the
\* encrypter's own key, Decrypt(Encrypt(P, R)) with any single identity in
\* R equals P exactly.
C17_RoundTrip ==
  /\ (Produced /\ encryptCall.self \in ciphertext.recipients)
       => \A identity \in Identities :
            Recipient(identity) \in ciphertext.recipients
              => DecryptResult(New(identity), ciphertext) =
                   [bytes |-> plaintext, err |-> ErrNone]
  /\ (/\ last.op = "Decrypt"
      /\ Intact(ciphertext)
      /\ encryptCall.self \in ciphertext.recipients
      /\ ageBackend.publicKey \in ciphertext.recipients)
       => decrypted = [called |-> TRUE, bytes |-> plaintext,
                       err |-> ErrNone]

\* a plaintext of MaxChunks chunks has been decrypted by a member of R
\* that is not the encrypter
C17_Witness ==
  /\ last.op = "Decrypt"
  /\ Intact(ciphertext)
  /\ Len(plaintext) = MaxChunks
  /\ encryptCall.self \in ciphertext.recipients
  /\ ageBackend.publicKey \in ciphertext.recipients \ {encryptCall.self}
  /\ decrypted.err = ErrNone
  /\ decrypted.bytes = plaintext

\* C18: for a recipient set R and an identity not in R, Decrypt fails with
\* DecryptionFailed; a ciphertext with one byte altered fails decryption
\* for every identity in R.
C18_Exclusion ==
  /\ ciphertext.exists
       => \A identity \in Identities :
            IF Recipient(identity) \notin ciphertext.recipients
            THEN DecryptResult(New(identity), ciphertext) =
                   [bytes |-> <<>>, err |-> ErrDecryptionFailed]
            ELSE ~Intact(ciphertext)
                   => DecryptResult(New(identity), ciphertext).err # ErrNone
  /\ (last.op = "Decrypt" /\ ageBackend.identity # NoIdentity)
       => IF ageBackend.publicKey \notin ciphertext.recipients
          THEN decrypted.err = ErrDecryptionFailed
          ELSE ~Intact(ciphertext) => decrypted.err # ErrNone

\* a member of R has tried to decrypt a ciphertext of MaxChunks chunks
\* whose last chunk was altered, and got an error
C18_Witness ==
  /\ last.op = "Decrypt"
  /\ ageBackend.identity # NoIdentity
  /\ ageBackend.publicKey \in ciphertext.recipients
  /\ Len(ciphertext.chunks) = MaxChunks
  /\ ~ciphertext.chunks[MaxChunks].intact
  /\ decrypted.err # ErrNone

\* C19: whenever Decrypt returns an error it returns no plaintext bytes at
\* all, also when the integrity failure is detected only after part of
\* the payload has already been read.
C19_NoPlaintextOnError ==
  (last.op = "Decrypt" /\ decrypted.err # ErrNone) => decrypted.bytes = <<>>

\* ------------------------------------------------- claims on ReEncryptAll

\* the file at a target: the credential or the env file of a stage
SecretAt(target) == IF target = "cred" THEN cred ELSE envs[target]

\* C20: ReEncryptAll recomputes the recipient set of each file separately:
\* a file with active explicit SecretPermissions is re-encrypted to its own
\* explicit recipients plus the operator, not to the team-wide list passed
\* in.  (The files a run has re-encrypted are those the operator can read
\* after it: Encrypt always adds the operator.)
C20_ReencryptPerFile ==
  (/\ last.op = "ReEncryptAll"
   /\ last.arg > 0
   /\ encryptCall.called
   /\ encryptCall.by = "ReEncryptAll")
    => \A target \in {"cred"} \cup Stages :
         LET file == SecretAt(target) IN
         (/\ file.exists
          /\ encryptCall.self \in file.readers
          /\ UsesExplicitList(file.permissions))
           => file.readers = Range(ExplicitKeys(file.permissions))
                               \cup {encryptCall.self}

\* the latest effective command is a ReEncryptAll that re-encrypted a file
Reencrypted ==
  /\ last.op = "ReEncryptAll"
  /\ last.arg > 0
  /\ encryptCall.called
  /\ encryptCall.by = "ReEncryptAll"

\* C21: after ReEncryptAll, an env file at stage S is decryptable only by
\* the operator and the roster members whose roles can access S;
\* re-encryption never makes a prod env file decryptable by a member who
\* has no prod access.  (The files a run has re-encrypted are those the
\* operator can read after it.)
C21_ReencryptKeepsStageAccess ==
  Reencrypted
    => \A s \in Stages :
         (envs[s].exists /\ encryptCall.self \in envs[s].readers)
           => envs[s].readers \subseteq
                RosterMembers(users, s) \cup {encryptCall.self}

\* ------------------------------------------------ claims on re-encryption

\* the walk positions that hold a file
Attempted == {i \in 1..Len(WalkOrder) : FileAt(i).exists}

\* the files the Errors of a Stats name
Recorded(stats) == {stats.Errors[k][1] : k \in 1..Len(stats.Errors)}

\* the step is a ReEncryptAll that went through the store
ReEncryptAllStep == last'.op = "ReEncryptAll" /\ last' # last

\* C22: in ReencryptAll a file that fails to decrypt, encrypt or write is
\* counted as failed and recorded in Stats.Errors, every other secret
\* file is still attempted, and on return total = succeeded + failed.
\* (A file is attempted when it is counted in total; it either comes out
\* encrypted to the new list or is left as it was and named in Errors.)
C22_FailuresCounted ==
  [][ReEncryptAllStep =>
       LET st == last'.stats
           self == last'.self
           recipients == VerifiedRecipients(users) IN
       /\ st.TotalFiles = Cardinality(Attempted)
       /\ st.TotalFiles = st.SuccessfulFiles + st.FailedFiles
       /\ st.FailedFiles = Cardinality(Recorded(st))
       /\ \A i \in Attempted :
            LET before == FileAt(i)
                after == FileAt(i)' IN
            IF \/ ~CanDecrypt(before, self)
               \/ EncryptErr(recipients, self) # ErrNone
            THEN WalkOrder[i] \in Recorded(st) /\ after = before
            ELSE \/ WalkOrder[i] \in Recorded(st) /\ after = before
                 \/ /\ WalkOrder[i] \notin Recorded(st)
                    /\ after.readers = EncryptRecipients(recipients, self)
     ]_vars

\* a ReEncryptAll has met a file it could not write and has re-encrypted
\* another
C22_Witness ==
  /\ last.op = "ReEncryptAll"
  /\ last.stats.SuccessfulFiles >= 1
  /\ \E k \in 1..Len(last.stats.Errors) :
       last.stats.Errors[k][2] = ErrWriteFile

\* the keys the users of a users file hold
HeldBy(us) == {us[i].publicKey : i \in 1..Len(us)}

\* the step is a "team revoke --reencrypt" that revoked a member and went
\* through the store
RevokeReencryptStep ==
  /\ last'.op = "TeamRevoke"
  /\ "stats" \in DOMAIN last'
  /\ users' # users

\* the key of the member the step revokes
RevokedKey == users[FindUser(users, last'.email)].publicKey

ReEncryptedNoFault ==
  /\ last.op = "ReEncryptAll"
  /\ \A k \in 1..Len(last.stats.Errors) :
       last.stats.Errors[k][2] = ErrDecrypt

\* ReEncryptAll run again at once by the same operator with the same
\* users file: the Stats it returns and what it leaves of the file at
\* walk position i
SecondRunStats ==
  WalkStats(Len(WalkOrder), VerifiedRecipients(users), last.self, 0, NoFault)
SecondRunFile(i) ==
  reEncryptFile(FileAt(i), VerifiedRecipients(users), last.self, NoFault)

GateEmails == Emails \cup {OutsideEmail}
GateRoles == {{"dev"}, {"admin"}}
GateKeys == ClaimedKeys \cup {NoKey, MalformedKey}

\* the operator holds no admin role: no user, or a user without it
NonAdmin(opKey) ==
  \A i \in 1..Len(users) :
    (/\ users[i].publicKey = opKey
     /\ \A j \in 1..(i - 1) : users[j].publicKey # opKey)
      => "admin" \notin users[i].roles

\* the handler's result is a rejection that leaves the users file, the
\* roster and the pending-verifications file as they are
Rejected(r, opKey) ==
  /\ r.err \in {ErrPermissionDenied, ErrNoCurrentUser}
  /\ r.users = users
  /\ r.roster = roster
  /\ r.pending = pending

\* every team command the operator opKey can issue is rejected
TeamCommandsRejected(opKey) ==
  /\ \A e \in GateEmails, rs \in GateRoles, ch \in Choices,
        k \in GateKeys, v \in BOOLEAN, f \in 0..3 :
       Rejected(TeamInviteResult(users, roster, pending, nextChallenge,
                                 now, opKey, e, rs, ch, k, v, f), opKey)
  /\ \A e \in GateEmails, rs \in GateRoles, k \in GateKeys, f \in 0..3 :
       Rejected(TeamAddVerifiedResult(users, roster, pending,
                                      nextChallenge, opKey, e, rs, k, f),
                opKey)
  /\ \A e \in GateEmails, r \in TeamResponses, f \in 0..3 :
       Rejected(TeamVerifyResult(users, roster, pending, nextChallenge,
                                 now, opKey, e, r, f), opKey)
  /\ \A e \in GateEmails, c \in BOOLEAN, f \in 0..3 :
       Rejected(TeamRevokeResult(users, roster, pending, nextChallenge,
                                 opKey, e, c, f), opKey)
  /\ \A e \in GateEmails, r \in Roles \cup {"owner"}, f \in 0..3 :
       /\ Rejected(TeamGrantResult(users, roster, pending, nextChallenge,
                                   opKey, e, r, f), opKey)
       /\ Rejected(TeamUngrantResult(users, roster, pending,
                                     nextChallenge, opKey, e, r, f), opKey)

\* the step is a command that re-encrypted, or went through, the store
StoreWalked ==
  \/ "stats" \in DOMAIN last' /\ (last' # last \/ users' # users)
  \/ /\ <<cred, envs>>' # <<cred, envs>>
     /\ encryptCall'.by \in {"ReEncryptAll", "TeamRevoke"}

\* C25: team invite, add-verified, verify, revoke, grant, ungrant and
\* re-encrypt-all issued by an operator without the admin role are
\* rejected, and the users file, roster, pending-verifications file and
\* all secret files are left unchanged.  (The six team handlers return the
\* gate's error and the files as they were; no step that walks the store
\* is taken by an operator the gate stops.)
C25_NonAdminRejected ==
  /\ [](\A opKey \in Keys : NonAdmin(opKey) => TeamCommandsRejected(opKey))
  /\ [][StoreWalked => ~NonAdmin(last'.self)]_vars

\* a member who is no admin holds a key of their own, next to a secret
\* file and after a command of theirs
C25_Witness ==
  /\ \E i \in 1..Len(users) :
       /\ ~IsAdmin(users[i])
       /\ users[i].publicKey # NoKey
       /\ NonAdmin(users[i].publicKey)
       /\ encryptCall.called
       /\ encryptCall.self = users[i].publicKey
  /\ cred.exists

\* the operator is the same user in the users file us as in users
SameOperator(us, opKey) ==
  LET cu == getCurrentUser(users, opKey)
      cu2 == getCurrentUser(us, opKey) IN
  IF cu = 0 THEN cu2 = 0 ELSE cu2 # 0 /\ us[cu2] = users[cu]

\* the users files that differ from users in the target alone: the
\* target taken out, or entered with or without a key
UserWorlds(opKey, email) ==
  {us \in {users, SelectSeq(users, LAMBDA u : u.email # email)}
          \cup {Append(SelectSeq(users, LAMBDA u : u.email # email),
                        NewUser(email, k, {"dev"}, FALSE)) :
                   k \in ClaimedKeys \cup {NoKey}} :
     SameOperator(us, opKey)}

\* the secret as it is, missing, or encrypted to the operator or to the
\* first admin
FileWorlds(file, opKey) ==
  {file, NoFile, SecretFile(NilPermissions, 1, {opKey}),
   SecretFile(NilPermissions, 1, {AdminKey})}

\* the error is a denial for lack of authorization
Denied(err) == err \in {ErrPermissionDenied, ErrAccessDenied}

\* C26: when an operation is denied for lack of authorization, the
\* outcome returned to the operator is the same whether or not the
\* target user or secret exists.
C26_DenialIndependentOfTarget ==
  \A opKey \in Keys, email \in InviteEmails, access \in AccessLevels,
     stage \in Stages :
    \A us \in UserWorlds(opKey, email) :
      /\ Denied(EnvAccessGrantErr(users, opKey, stage, email, access))
           => EnvAccessGrantErr(us, opKey, stage, email, access) =
                EnvAccessGrantErr(users, opKey, stage, email, access)
      /\ \A file \in FileWorlds(cred, opKey) :
           Denied(CredAccessGrantErr(users, cred, opKey, email, access))
             => CredAccessGrantErr(us, file, opKey, email, access) =
                  CredAccessGrantErr(users, cred, opKey, email, access)
      /\ \A file \in FileWorlds(envs[stage], opKey) :
           Denied(EnvShowErr(users, envs[stage], opKey, stage))
             => EnvShowErr(us, file, opKey, stage) =
                  EnvShowErr(users, envs[stage], opKey, stage)

\* a developer is denied cred access grant, env access grant and env show
\* on prod, for a target user and secrets that exist
C26_Witness ==
  /\ cred.exists
  /\ envs["prod"].exists
  /\ last.op = "EnvShow"
  /\ FindUser(users, "bob@corp") # 0
  /\ CredAccessGrantErr(users, cred, "age1c", "bob@corp", "read") =
       ErrPermissionDenied
  /\ EnvAccessGrantErr(users, "age1c", "prod", "bob@corp", "read") =
       ErrPermissionDenied
  /\ EnvShowErr(users, envs["prod"], "age1c", "prod") = ErrAccessDenied

\* ------------------------------------------------- roles and permissions
\* the checks of package models and of package rbac applied to a user of
\* every role list, for every stage

\* the role strings a users file can hold: the four roles and another
RoleInputs == Roles \cup {"owner"}
\* the stage strings a check can be given: the three stages and another
StageArgs == Stages \cup {"qa"}

\* Role.CanManageTeam
RoleCanManageTeam(role) == role = "admin"

\* User.CanManageTeam
CanManageTeam(u) == \E r \in u.roles : RoleCanManageTeam(r)

\* rbac.RolePermissions: the permissions of a role of the map
RolePermissions(role) ==
  CASE role = "dev" ->
         {"credentials:read", "env:dev:read", "env:dev:write", "team:list",
          "project:list"}
    [] role = "staging-access" ->
         {"credentials:read", "env:dev:read", "env:dev:write",
          "env:staging:read", "env:staging:write", "team:list",
          "project:list"}
    [] role = "prod-access" ->
         {"credentials:read", "credentials:write", "env:dev:read",
          "env:dev:write", "env:staging:read", "env:staging:write",
          "env:prod:read", "env:prod:write", "team:list", "project:list",
          "project:create"}
    [] role = "admin" ->
         {"credentials:read", "credentials:write", "env:dev:read",
          "env:dev:write", "env:staging:read", "env:staging:write",
          "env:prod:read", "env:prod:write", "team:list", "team:invite",
          "team:revoke", "team:grant", "project:list", "project:create",
          "project:delete"}

\* an Engine.Can that lets a role of the map through whatever it holds
Can_AnyRole(u, perm) == \E role \in u.roles : role \in Roles

\* Engine.Can: a role of the user is in the map and holds the permission
Can(u, perm) ==
  \E role \in u.roles : role \in Roles /\ perm \in RolePermissions(role)

\* Engine.CanAccessStage: the permission its switch picks
StagePermission(stage, write) ==
  CASE stage = "dev" -> IF write THEN "env:dev:write" ELSE "env:dev:read"
    [] stage = "staging" ->
         IF write THEN "env:staging:write" ELSE "env:staging:read"
    [] stage = "prod" -> IF write THEN "env:prod:write" ELSE "env:prod:read"

\* Engine.CanAccessStage(user, stage, write)
EngineCanAccessStage(u, stage, write) ==
  IF stage \notin Stages THEN FALSE
  ELSE Can(u, StagePermission(stage, write))

\* Engine.CanWriteCredentials, Engine.CanManageTeam
EngineCanWriteCredentials(u) == Can(u, "credentials:write")
EngineCanManageTeam(u) == Can(u, "team:invite")

\* the user the checks are applied to
Checked == users[1]

\* a bool as the number a command leaves in last
Bit(b) == IF b THEN 1 ELSE 0

\* the user is entered with a role list
EnterUser(roles) ==
  /\ users = <<>>
  /\ users' = <<NewUser("carol@corp", "age1c", roles, FALSE)>>
  /\ last' = Outcome("EnterUser", "carol@corp", 0, ErrNone)
  /\ UNCHANGED <<pending, now, nextChallenge, issued, wrong, verifiedWith,
                 roster, store, faults>>
  /\ UNCHANGED secretVars

\* a check is called; last holds its name, its argument and what it
\* returned
Check(op, stage, result) ==
  /\ users # <<>>
  /\ last' = Outcome(op, stage, Bit(result), ErrNone)
  /\ UNCHANGED <<pending, now, nextChallenge, issued, wrong, verifiedWith>>
  /\ UNCHANGED teamVars

NextRoles ==
  \/ \E roles \in SUBSET RoleInputs : EnterUser(roles)
  \/ \E stage \in StageArgs :
       Check("User.CanAccessStage", stage, CanAccessStage(Checked, stage))
  \/ Check("User.CanWriteCredentials", "", CanWriteCredentials(Checked))
  \/ Check("User.CanManageTeam", "", CanManageTeam(Checked))
  \/ \E stage \in StageArgs :
       Check("Engine.CanAccessStage read", stage,
             EngineCanAccessStage(Checked, stage, FALSE))
  \/ \E stage \in StageArgs :
       Check("Engine.CanAccessStage write", stage,
             EngineCanAccessStage(Checked, stage, TRUE))
  \/ Check("Engine.CanWriteCredentials", "",
           EngineCanWriteCredentials(Checked))
  \/ Check("Engine.CanManageTeam", "", EngineCanManageTeam(Checked))

SpecRoles == Init /\ [][NextRoles]_vars

\* ------------------------------------------ claims on roles and permissions

\* the Role Reference of the documentation: per role, the stages whose
\* column is ticked, and the roles ticked under Write Creds and Team Mgmt
RoleReferenceStages(role) ==
  CASE role = "dev" -> {"dev"}
    [] role = "staging-access" -> {"dev", "staging"}
    [] role = "prod-access" -> {"dev", "staging", "prod"}
    [] role = "admin" -> {"dev", "staging", "prod"}
    [] OTHER -> {}
RoleReferenceWriteCreds == {"prod-access", "admin"}
RoleReferenceTeamMgmt == {"admin"}

\* C27: stage access follows the role table for every role and stage:
\* admin and prod-access can access dev, staging and prod; staging-access
\* can access dev and staging; dev can access dev only; only admin can
\* manage the team and only admin and prod-access can write credentials;
\* a user's access is the union over the roles they hold.
C27_RoleTable ==
  /\ (last.op = "User.CanAccessStage" /\ last.email \in Stages)
       => last.arg = Bit(\E r \in Checked.roles :
                           last.email \in RoleReferenceStages(r))
  /\ last.op = "User.CanWriteCredentials"
       => last.arg = Bit(Checked.roles \cap RoleReferenceWriteCreds # {})
  /\ last.op = "User.CanManageTeam"
       => last.arg = Bit(Checked.roles \cap RoleReferenceTeamMgmt # {})

\* a user who holds dev and staging-access has been granted staging
C27_Witness ==
  /\ last.op = "User.CanAccessStage"
  /\ last.email = "staging"
  /\ Checked.roles = {"dev", "staging-access"}
  /\ last.arg = 1

\* the Permission Matrix of the documentation: per permission, the roles
\* whose column is ticked (its columns staging and prod are the roles
\* staging-access and prod-access)
PermissionMatrix(perm) ==
  CASE perm \in {"credentials:read", "env:dev:read", "env:dev:write",
                 "team:list", "project:list"} -> Roles
    [] perm \in {"env:staging:read", "env:staging:write"} ->
         {"staging-access", "prod-access", "admin"}
    [] perm \in {"credentials:write", "env:prod:read", "env:prod:write",
                 "project:create"} -> {"prod-access", "admin"}
    [] perm \in {"team:invite", "team:revoke", "team:grant",
                 "project:delete"} -> {"admin"}
Permissions ==
  {"credentials:read", "credentials:write", "env:dev:read", "env:dev:write",
   "env:staging:read", "env:staging:write", "env:prod:read",
   "env:prod:write", "team:list", "team:invite", "team:revoke",
   "team:grant", "project:list", "project:create", "project:delete"}

\* the latest call is Engine.CanAccessStage for one of the three stages
EngineAsked ==
  /\ last.op \in {"Engine.CanAccessStage read", "Engine.CanAccessStage write"}
  /\ last.email \in Stages

\* C28: for every set of roles and every stage (dev, staging, prod), the
\* rbac engine's decision (RolePermissions / Engine.CanAccessStage)
\* equals models.User.CanAccessStage, and both agree with the documented
\* permission matrix.
C28_EngineAgrees ==
  /\ \A role \in Roles, perm \in Permissions :
       perm \in RolePermissions(role) <=> role \in PermissionMatrix(perm)
  /\ EngineAsked
       => /\ last.arg = Bit(CanAccessStage(Checked, last.email))
          /\ \A write \in BOOLEAN :
               last.arg =
                 Bit(Checked.roles
                       \cap PermissionMatrix(StagePermission(last.email,
                                                             write)) # {})

\* the engine has let a user who holds dev and prod-access write to prod
C28_Witness ==
  /\ last.op = "Engine.CanAccessStage write"
  /\ last.email = "prod"
  /\ Checked.roles = {"dev", "prod-access"}
  /\ last.arg = 1

\* ------------------------------------------------------ the identity file
\* the key commands of package age applied to the file at identityPath:
\* generated, protected with a passphrase, opened, re-protected, laid open

\* number of salts crypto/rand yields in one run
MaxSalts == 2

\* the passphrases a prompt returns; the key commands refuse an empty one
Passphrases == {"hunter2", "tr0ub4dor"}
\* GenerateIdentity(path): no passphrase
NoPassphrase == ""
\* rand.Read(salt); the nonce is drawn with it and stored beside it
Salts == 1..MaxSalts

ErrInvalidPassphrase == "invalid passphrase"
ErrKeyNotEncrypted == "key is not passphrase-protected"
ErrOpenIdentity == "failed to open identity file"
ErrReadIdentity == "failed to read identity file"
ErrParseIdentity == "failed to parse identity"
ErrParseDecrypted == "failed to parse decrypted identity"

\* argon2.IDKey(passphrase, salt, ...): one key per passphrase and salt
IDKey(passphrase, salt) == <<passphrase, salt>>

\* aead.Seal(nil, nonce, plaintext, nil)
Seal(key, text) == [key |-> key, text |-> text]

\* an envelope that opens under any key
Open_AnyKey(key, box) == [ok |-> TRUE, text |-> box.text]

\* aead.Open(nil, nonce, ciphertext, nil): the tag verifies under the key
\* the envelope was sealed with, and under no other
Open(key, box) ==
  IF box.key = key THEN [ok |-> TRUE, text |-> box.text]
  ELSE [ok |-> FALSE, text |-> ""]

\* the file has no data: line
NoEnvelope == Seal(<<>>, "")

\* saveUnencryptedIdentity(path, identity): the public key comment and
\* the identity line
saveUnencryptedIdentity(identity) ==
  [exists |-> TRUE, header |-> FALSE, comment |-> Recipient(identity),
   lines |-> <<identity>>, salt |-> 0, data |-> NoEnvelope]

\* an envelope sealed without the passphrase
saveEncryptedIdentity_EmptyPassphrase(identity, passphrase, salt) ==
  [exists |-> TRUE, header |-> TRUE, comment |-> Recipient(identity),
   lines |-> <<>>, salt |-> salt,
   data |-> Seal(IDKey(NoPassphrase, salt), identity)]

\* saveEncryptedIdentity(path, identity, passphrase): the header, the
\* public key comment, the salt and the sealed identity string
saveEncryptedIdentity(identity, passphrase, salt) ==
  [exists |-> TRUE, header |-> TRUE, comment |-> Recipient(identity),
   lines |-> <<>>, salt |-> salt,
   data |-> Seal(IDKey(passphrase, salt), identity)]

\* IsKeyEncrypted(path): the file holds the header line
IsKeyEncrypted(file) == file.exists /\ file.header

\* a.loadIdentity(): age.ParseIdentities skips the comments and reads
\* every other line as an identity
loadIdentity(a, file) ==
  IF ~file.exists THEN [a |-> a, err |-> ErrOpenIdentity]
  ELSE IF file.header \/ file.salt # 0
  THEN [a |-> a, err |-> ErrParseIdentity]
  ELSE IF Len(file.lines) = 0 THEN [a |-> a, err |-> ErrNoIdentity]
  ELSE [a |-> [identity |-> file.lines[1],
               publicKey |-> Recipient(file.lines[1])],
        err |-> ErrNone]

\* a.loadIdentityWithPassphrase(passphrase): the fields of a are set
\* after the envelope opened and its content parsed, never before
loadIdentityWithPassphrase(a, file, passphrase) ==
  IF ~file.exists THEN [a |-> a, err |-> ErrReadIdentity]
  ELSE IF file.salt = 0 THEN [a |-> a, err |-> ErrKeyNotEncrypted]
  ELSE LET r == Open(IDKey(passphrase, file.salt), file.data) IN
    IF ~r.ok THEN [a |-> a, err |-> ErrInvalidPassphrase]
    ELSE IF r.text \notin Identities
    THEN [a |-> a, err |-> ErrParseDecrypted]
    ELSE [a |-> [identity |-> r.text,
                 publicKey |-> IF file.comment = NoKey
                               THEN Recipient(r.text) ELSE file.comment],
          err |-> ErrNone]

\* a constructor that failed returns nil, err
NilAge == [identity |-> NoIdentity, publicKey |-> NoKey]

\* the outcome of a key command: the credential it was given to open the
\* file and the one it was given to protect it
KeyOutcome(op, old, new, err) ==
  [op |-> op, email |-> "", arg |-> 0, err |-> err, old |-> old, new |-> new]

\* what the key commands never touch
notKeyVars ==
  <<pending, now, nextChallenge, issued, wrong, verifiedWith, users, roster,
    store, faults, cred, envs, encryptCall, plaintext, ciphertext, decrypted,
    rosterObject, recipientsFile>>

\* GenerateIdentityWithPassphrase(path, passphrase): a fresh identity,
\* saved encrypted when a passphrase is given
GenerateIdentityWithPassphrase(identity, passphrase, salt) ==
  /\ passphrase = NoPassphrase => salt = 1
  /\ keyFile' = IF passphrase # NoPassphrase
                THEN saveEncryptedIdentity(identity, passphrase, salt)
                ELSE saveUnencryptedIdentity(identity)
  /\ last' = KeyOutcome("GenerateIdentity", NoPassphrase, passphrase, ErrNone)
  /\ UNCHANGED ageBackend
  /\ UNCHANGED notKeyVars

\* New(identityPath), the prompt returning prompted when it is asked
NewAtPath(prompted) ==
  LET a == NewWithoutIdentity
      r == IF IsKeyEncrypted(keyFile)
           THEN loadIdentityWithPassphrase(a, keyFile, prompted)
           ELSE loadIdentity(a, keyFile) IN
  /\ ageBackend' = IF r.err = ErrNone THEN r.a ELSE NilAge
  /\ last' = KeyOutcome("New", prompted, prompted, r.err)
  /\ UNCHANGED keyFile
  /\ UNCHANGED notKeyVars

\* NewWithPassphrase(identityPath, passphrase)
NewWithPassphrase(passphrase) ==
  LET r == loadIdentityWithPassphrase(NewWithoutIdentity, keyFile,
                                      passphrase) IN
  /\ ageBackend' = IF r.err = ErrNone THEN r.a ELSE NilAge
  /\ last' = KeyOutcome("NewWithPassphrase", passphrase, passphrase, r.err)
  /\ UNCHANGED keyFile
  /\ UNCHANGED notKeyVars

\* EncryptExistingKey(path, passphrase)
EncryptExistingKey(passphrase, salt) ==
  LET r == loadIdentity(NewWithoutIdentity, keyFile) IN
  /\ r.err # ErrNone => salt = 1
  /\ keyFile' = IF r.err # ErrNone THEN keyFile
                ELSE saveEncryptedIdentity(r.a.identity, passphrase, salt)
  /\ last' = KeyOutcome("EncryptExistingKey", NoPassphrase, passphrase, r.err)
  /\ UNCHANGED ageBackend
  /\ UNCHANGED notKeyVars

\* DecryptKeyFile(path, passphrase)
DecryptKeyFile(passphrase) ==
  LET r == loadIdentityWithPassphrase(NewWithoutIdentity, keyFile,
                                      passphrase) IN
  /\ keyFile' = IF r.err # ErrNone THEN keyFile
                ELSE saveUnencryptedIdentity(r.a.identity)
  /\ last' = KeyOutcome("DecryptKeyFile", passphrase, NoPassphrase, r.err)
  /\ UNCHANGED ageBackend
  /\ UNCHANGED notKeyVars

\* ChangePassphrase(path, oldPassphrase, newPassphrase)
ChangePassphrase(oldPassphrase, newPassphrase, salt) ==
  LET r == loadIdentityWithPassphrase(NewWithoutIdentity, keyFile,
                                      oldPassphrase) IN
  /\ r.err # ErrNone => salt = 1
  /\ keyFile' = IF r.err # ErrNone THEN keyFile
                ELSE saveEncryptedIdentity(r.a.identity, newPassphrase, salt)
  /\ last' = KeyOutcome("ChangePassphrase", oldPassphrase, newPassphrase,
                        r.err)
  /\ UNCHANGED ageBackend
  /\ UNCHANGED notKeyVars

NextKeyFile ==
  \/ \E identity \in Identities, passphrase \in Passphrases \cup {NoPassphrase},
        salt \in Salts :
       GenerateIdentityWithPassphrase(identity, passphrase, salt)
  \/ \E prompted \in Passphrases : NewAtPath(prompted)
  \/ \E passphrase \in Passphrases : NewWithPassphrase(passphrase)
  \/ \E passphrase \in Passphrases, salt \in Salts :
       EncryptExistingKey(passphrase, salt)
  \/ \E passphrase \in Passphrases : DecryptKeyFile(passphrase)
  \/ \E old \in Passphrases, new \in Passphrases, salt \in Salts :
       ChangePassphrase(old, new, salt)

SpecKeyFile == Init /\ [][NextKeyFile]_vars

\* ----------------------------------------------- claims on the identity file

\* the file is passphrase-protected
Protected(file) == IsKeyEncrypted(file) /\ file.salt # 0

\* the passphrase the file was protected with
ProtectedWith(file) == file.data.key[1]

\* C29: a passphrase-protected key file loaded (New, NewWithPassphrase)
\* with a passphrase other than the one it was protected with gives
\* ErrInvalidPassphrase, and the caller holds no identity and no public key
C29_WrongPassphraseRejected ==
  (/\ last.op \in {"New", "NewWithPassphrase"}
   /\ "old" \in DOMAIN last
   /\ Protected(keyFile)
   /\ last.old # ProtectedWith(keyFile))
    => /\ last.err = ErrInvalidPassphrase
       /\ ageBackend.identity = NoIdentity
       /\ ageBackend.publicKey = NoKey

\* a protected file was loaded with the other passphrase and refused
C29_Witness ==
  /\ last.op = "NewWithPassphrase"
  /\ "old" \in DOMAIN last
  /\ Protected(keyFile)
  /\ last.old \in Passphrases \ {ProtectedWith(keyFile)}
  /\ last.err = ErrInvalidPassphrase
  /\ ageBackend.identity = NoIdentity

\* the file loaded with a credential: a passphrase, or none
LoadWith(file, credential) ==
  IF credential = NoPassphrase THEN loadIdentity(NewWithoutIdentity, file)
  ELSE loadIdentityWithPassphrase(NewWithoutIdentity, file, credential)

\* passphrase add, remove and change
KeyCommands == {"EncryptExistingKey", "DecryptKeyFile", "ChangePassphrase"}

\* this step is a key command that returned nil
KeyCommandDone == last'.op \in KeyCommands /\ last'.err = ErrNone

\* the file loads with the new credential to the identity and the public
\* key it loaded to with the old credential before the command
KeypairPreserved ==
  LET before == LoadWith(keyFile, last'.old)
      after == LoadWith(keyFile', last'.new) IN
  /\ before.err = ErrNone
  /\ after.err = ErrNone
  /\ after.a.identity = before.a.identity
  /\ after.a.publicKey = before.a.publicKey

\* the old credential does not load the file the command left
OldCredentialShut == LoadWith(keyFile', last'.old).err # ErrNone

\* this step is a key command given a passphrase other than the one the
\* file is protected with
WrongOldPassphrase ==
  /\ last'.op \in {"DecryptKeyFile", "ChangePassphrase"}
  /\ Protected(keyFile)
  /\ last'.old # ProtectedWith(keyFile)

\* C30 as stated: a passphrase change, add or remove that succeeds leaves
\* a file that loads with the new credential (or none) to the same
\* identity and public key as before and that the old credential no
\* longer loads; one given a wrong old passphrase fails and leaves the
\* file as it was
C30_KeypairKeptOldShut ==
  [][/\ KeyCommandDone => (KeypairPreserved /\ OldCredentialShut)
     /\ WrongOldPassphrase =>
          (last'.err = ErrInvalidPassphrase /\ keyFile' = keyFile)]_vars

\* C30: a passphrase change, add or remove that succeeds leaves a file
\* that loads with the new credential (or none) to the same identity and
\* public key as before, and that the old credential no longer loads
\* when the new one differs from it; one given a wrong old passphrase
\* fails and leaves the file as it was
C30_KeypairKept ==
  [][/\ KeyCommandDone =>
          /\ KeypairPreserved
          /\ last'.new # last'.old => OldCredentialShut
     /\ WrongOldPassphrase =>
          (last'.err = ErrInvalidPassphrase /\ keyFile' = keyFile)]_vars

\* the passphrase of a file was changed to another one, and the file now
\* loads with it to the identity it was generated with
C30_Witness ==
  /\ last.op = "ChangePassphrase"
  /\ last.err = ErrNone
  /\ last.new # last.old
  /\ Protected(keyFile)
  /\ ProtectedWith(keyFile) = last.new
  /\ LoadWith(keyFile, last.new).err = ErrNone
  /\ LoadWith(keyFile, last.old).err = ErrInvalidPassphrase

\* ------------------------------------------------- the recipients roster
\* package recipients on its own: a Recipients object built by Add,
\* written by Marshal, read back by Parse; the file can be edited by hand.
\* A line is the list of its words: TrimSpace and the blanks between the
\* words are left out, "#" is a word, an empty string adds no word.

\* most keys the object holds, most lines written by hand in one run
MaxRoster == 2
MaxLines == 2

\* the keys and addresses Add is called with: Add tests neither
AddKeys == {"age1b", "age1c", "ssh-ed25519", NoKey}
AddEmails == {"", "bob@corp"}

\* the lines an editor adds: blank, comment, key with and without
\* address, a key of another kind, a key of no kind
HandLines ==
  {<<>>, <<"#", "bob@corp">>, <<"age1b", "#", "bob@corp">>, <<"age1c">>,
   <<"age1c", "#">>, <<"ssh-ed25519", "#", "carol@corp">>, <<"bob@corp">>}

\* recipients.New()
NewRecipients == [keys |-> <<>>, emails |-> [k \in {} |-> ""]]

\* r.emails[key] = email
SetEmail(emails, key, email) ==
  [k \in DOMAIN emails \cup {key} |-> IF k = key THEN email ELSE emails[k]]

\* Recipients.Add(key, email)
RecipientsAdd(r, key, email) ==
  LET known == \E i \in 1..Len(r.keys) : r.keys[i] = key IN
  [keys |-> IF known THEN r.keys ELSE Append(r.keys, key),
   emails |-> IF email # "" THEN SetEmail(r.emails, key, email)
              ELSE r.emails]

\* the words of a line written with fmt.Sprintf and read with TrimSpace
Words(parts) == SelectSeq(parts, LAMBDA w : w # "")

\* Recipients.Marshal(): Header, a blank line, one line per key
Marshal(r) ==
  <<<<"#", "Passbook Recipients">>,
    <<"#", "Format: <age-public-key> # <email>">>,
    <<>>>> \o
  [i \in 1..Len(r.keys) |->
     IF r.keys[i] \in DOMAIN r.emails
     THEN Words(<<r.keys[i], "#", r.emails[r.keys[i]]>>)
     ELSE Words(<<r.keys[i]>>)]

\* strings.HasPrefix(key, "age1")
HasAgePrefix(key) == HasKeyFormat(key)

\* strings.SplitN(line, "#", 2): the place of the first "#", 0 for none
FirstHash(line) ==
  IF \E i \in 1..Len(line) : line[i] = "#"
  THEN CHOOSE i \in 1..Len(line) :
         line[i] = "#" /\ \A j \in 1..(i - 1) : line[j] # "#"
  ELSE 0

\* the body of the scanner loop of Parse for one line
ParseLine(r, line) ==
  IF Len(line) = 0 THEN r
  ELSE IF line[1] = "#" THEN r
  ELSE LET h == FirstHash(line)
           key == line[1]
           email == IF h # 0 /\ h < Len(line) THEN line[h + 1] ELSE "" IN
    IF ~HasAgePrefix(key) THEN r
    ELSE [keys |-> Append(r.keys, key),
          emails |-> IF h # 0 THEN SetEmail(r.emails, key, email)
                     ELSE r.emails]

RECURSIVE ParseLines(_, _)
ParseLines(r, lines) ==
  IF Len(lines) = 0 THEN r
  ELSE ParseLines(ParseLine(r, Head(lines)), Tail(lines))

\* recipients.Parse(data)
Parse(lines) == ParseLines(NewRecipients, lines)

\* Recipients.Entries(): the key-email pairs in order
Entries(r) ==
  [i \in 1..Len(r.keys) |->
     <<r.keys[i],
       IF r.keys[i] \in DOMAIN r.emails THEN r.emails[r.keys[i]] ELSE "">>]

\* what the roster package never touches
notRosterVars ==
  <<pending, now, nextChallenge, issued, wrong, verifiedWith, users, roster,
    store, faults, cred, envs, encryptCall, ageBackend, plaintext,
    ciphertext, decrypted, keyFile>>

\* r.Add(key, email) on the object at hand
AddRecipientKey(key, email) ==
  /\ Len(rosterObject.keys) < MaxRoster
  /\ rosterObject' = RecipientsAdd(rosterObject, key, email)
  /\ last' = Outcome("Add", email, Len(rosterObject'.keys), ErrNone)
  /\ UNCHANGED recipientsFile
  /\ UNCHANGED notRosterVars

\* Store.SaveRecipients: the file is what Marshal returns
SaveRecipients ==
  /\ recipientsFile' = Marshal(rosterObject)
  /\ last' = Outcome("SaveRecipients", "", Len(rosterObject.keys), ErrNone)
  /\ UNCHANGED rosterObject
  /\ UNCHANGED notRosterVars

\* the file is edited: a line is added at its end
EditRecipients(line) ==
  /\ Len(recipientsFile) < MaxLines
       + (IF Len(recipientsFile) > 0 /\ recipientsFile[1] = Marshal(NewRecipients)[1]
          THEN Len(Marshal(NewRecipients)) ELSE 0)
  /\ recipientsFile' = Append(recipientsFile, line)
  /\ last' = Outcome("edit", "", Len(recipientsFile'), ErrNone)
  /\ UNCHANGED rosterObject
  /\ UNCHANGED notRosterVars

\* Store.GetRecipients: the object is what Parse returns
GetRecipients ==
  /\ rosterObject' = Parse(recipientsFile)
  /\ last' = Outcome("GetRecipients", "", Len(rosterObject'.keys), ErrNone)
  /\ UNCHANGED recipientsFile
  /\ UNCHANGED notRosterVars

NextRoster ==
  \/ \E key \in AddKeys, email \in AddEmails :
       AddRecipientKey(key, email)
  \/ SaveRecipients
  \/ \E line \in HandLines : EditRecipients(line)
  \/ GetRecipients

SpecRoster == Init /\ [][NextRoster]_vars

\* ---------------------------------------------- claims on the roster file

\* a line Parse is to skip: blank, comment, or key without the prefix
Skipped(line) ==
  \/ Len(line) = 0
  \/ line[1] = "#"
  \/ ~HasKeyFormat(line[1])

\* the object can be built from New() by calls of Add: no key twice, no
\* empty address recorded
BuiltThroughAdd(r) ==
  /\ \A i, j \in 1..Len(r.keys) : r.keys[i] = r.keys[j] => i = j
  /\ \A k \in DOMAIN r.emails :
       r.emails[k] # "" /\ \E i \in 1..Len(r.keys) : r.keys[i] = k

\* C31: Parse skips the comment lines, the blank lines and the lines
\* whose key lacks the age1 prefix, and keeps the others in order; the
\* file Marshal writes for an object built through Add parses to the
\* same ordered list of (key, email) pairs
C31_RosterRoundTrip ==
  /\ LET kept == SelectSeq(recipientsFile, LAMBDA l : ~Skipped(l)) IN
     Parse(recipientsFile).keys = [i \in 1..Len(kept) |-> kept[i][1]]
  /\ BuiltThroughAdd(rosterObject)
       => Entries(Parse(Marshal(rosterObject))) = Entries(rosterObject)

\* --------------------------------------- the process stopped in a batch
\* reEncryptFile writes back with os.WriteFile, which opens the path with
\* O_TRUNC and then writes: a process that stops in it leaves the bytes
\* written so far

\* the parts of a ciphertext in the order they are written: the header,
\* the nonce, the chunks
PartsOf(c) == 2 + Len(c.chunks)

\* the first n parts of the ciphertext c, the rest never written
CutAfter(c, n) ==
  [c EXCEPT !.header = n >= 1,
            !.nonce = n >= 2,
            !.chunks = [i \in 1..Len(c.chunks) |->
                          [@[i] EXCEPT !.intact = n >= 2 + i]]]

\* a file that holds a ciphertext cut short: no identity opens it
TruncatedFile ==
  [exists |-> TRUE, permissions |-> NilPermissions, nvars |-> 0,
   readers |-> {}]

\* the secret file whose path holds the bytes of c
FileOfCiphertext(c) ==
  IF c.header /\ ReadAll(c).err = ErrNone
  THEN SecretOfBytes(ReadAll(c).bytes, c.recipients)
  ELSE TruncatedFile

\* the ciphertext reEncryptFile hands to os.WriteFile
NewCiphertext(file, recipients, self) ==
  Sealed(ReadAll(Sealed(SecretBytes(file), file.readers)).bytes,
         EncryptRecipients(recipients, self))

\* the place of a file in the walk
WalkIndex(target) == CHOOSE i \in 1..Len(WalkOrder) : WalkOrder[i] = target

\* ReEncryptAll, the process stopped in the os.WriteFile of the file at
\* walk position at after n parts of the new ciphertext were written: the
\* files before it are re-encrypted, the files after it are not reached
ReEncryptAllStopped(opKey, at, n) ==
  LET recipients == VerifiedRecipients(users)
      Left(i) ==
        IF i < at THEN reEncryptFile(FileAt(i), recipients, opKey, NoFault)
        ELSE IF i = at
        THEN FileOfCiphertext(
               CutAfter(NewCiphertext(FileAt(i), recipients, opKey), n))
        ELSE FileAt(i) IN
  /\ store # "none"
  /\ AdminGate(users, opKey) = ErrNone
  /\ Len(recipients) # 0
  /\ reEncryptFileErr(FileAt(at), recipients, opKey, NoFault) = ErrNone
  /\ n <= PartsOf(NewCiphertext(FileAt(at), recipients, opKey))
  /\ cred' = Left(WalkIndex("cred"))
  /\ envs' = [s \in Stages |-> Left(WalkIndex(s))]
  /\ encryptCall' = EncryptCall("ReEncryptAll", WalkOrder[at], recipients,
                                opKey, ErrNone)
  /\ last' = [op |-> "ReEncryptAll stopped", email |-> "", arg |-> at,
              err |-> ErrNone, self |-> opKey]
  /\ UNCHANGED <<pending, now, nextChallenge, issued, wrong, verifiedWith,
                 users, roster, store, faults, ageVars>>

\* most parts of a ciphertext written before the process stops
MaxParts == 4

NextStopped ==
  \/ InitStore(AdminKey, 0)
  \/ \E m \in ReencryptInvites :
       TeamInvite(AdminKey, m[1], m[3], "2", m[2], FALSE, 0)
  \/ \E op \in Keys : CredAdd(op)
  \/ \E op \in Keys, s \in ReencryptStages : EnvSet(op, s)
  \/ \E op \in Keys : ReEncryptAll(op, 0, NoFault)
  \/ \E op \in Keys, at \in 1..Len(WalkOrder), n \in 0..MaxParts :
       ReEncryptAllStopped(op, at, n)

SpecStopped == Init /\ [][NextStopped]_vars

\* C32: when the process stops during a re-encryption batch, every secret
\* file is its complete previous ciphertext or the complete ciphertext
\* the batch makes of it
C32_StoppedFilesWhole ==
  [][last'.op = "ReEncryptAll stopped" =>
       \A i \in 1..Len(WalkOrder) :
         \/ FileAt(i)' = FileAt(i)
         \/ FileAt(i)' = reEncryptFile(FileAt(i), VerifiedRecipients(users),
                                       last'.self, NoFault)]_vars

\* ------------------------------------------ claims on explicit permissions

\* SecretPermissions.CanRead: the first entry of the email gives read or
\* write access
CanRead(p, email) ==
  \E i \in 1..Count(p) :
    /\ p.recipients[i].email = email
    /\ \A j \in 1..(i - 1) : p.recipients[j].email # email
    /\ p.recipients[i].access \in {"read", "write"}

\* EnvFile.CanUserRead
CanUserRead(file, email) ==
  IF ~UsesExplicitList(file.permissions) THEN TRUE
  ELSE CanRead(file.permissions, email)

\* the user holds an entry of the explicit list of the file, made for the
\* key the user has, and the file is encrypted to that key
HoldsExplicitEntry(file, u) ==
  /\ file.exists
  /\ UsesExplicitList(file.permissions)
  /\ u.publicKey # NoKey
  /\ \E i \in 1..Count(file.permissions) :
       /\ file.permissions.recipients[i].email = u.email
       /\ file.permissions.recipients[i].publicKey = u.publicKey
  /\ CanUserRead(file, u.email)
  /\ CanDecrypt(file, u.publicKey)

\* C33: a user who holds an explicit read or write entry on an env file
\* with active explicit permissions is shown that file by "env show",
\* whatever roles the user has
C33_ExplicitEntryReads ==
  \A s \in Stages, i \in 1..Len(users) :
    HoldsExplicitEntry(envs[s], users[i])
      => EnvShowErr(users, envs[s], users[i].publicKey, s) = ErrNone

\* ------------------------------------------------- roles through the store
\* Store.GrantRole and Store.RevokeRole beside the team commands

\* Store.UpdateUser: the first user with that email, updated
UpdateUser(us, email, roles) ==
  LET i == FindUser(us, email) IN
  IF i = 0 THEN us ELSE [us EXCEPT ![i].roles = roles]

\* Store.GrantRole(ctx, email, role)
GrantRole(email, role) ==
  LET i == FindUser(users, email) IN
  /\ store # "none"
  /\ IF ~IsValid(role) \/ i = 0 THEN UNCHANGED vars
     ELSE /\ users' = UpdateUser(users, email, users[i].roles \cup {role})
          /\ last' = Outcome("GrantRole", email, 0, ErrNone)
          /\ UNCHANGED <<pending, now, nextChallenge, issued, wrong,
                         verifiedWith, roster, store, faults>>
          /\ UNCHANGED secretVars

\* Store.RevokeRole(ctx, email, role): the role is dropped from the list
\* of the user, whatever is left of it
RevokeRole(email, role) ==
  LET i == FindUser(users, email) IN
  /\ store # "none"
  /\ IF i = 0 THEN UNCHANGED vars
     ELSE /\ users' = UpdateUser(users, email, users[i].roles \ {role})
          /\ last' = Outcome("RevokeRole", email, 0, ErrNone)
          /\ UNCHANGED <<pending, now, nextChallenge, issued, wrong,
                         verifiedWith, roster, store, faults>>
          /\ UNCHANGED secretVars

NextStoreRoles ==
  \/ InitStore(AdminKey, 0)
  \/ \E op \in Keys, m \in ReencryptInvites :
       TeamInvite(op, m[1], m[3], "2", m[2], FALSE, 0)
  \/ \E op \in Keys, e \in Emails, r \in GrantInputs : TeamGrant(op, e, r, 0)
  \/ \E op \in Keys, e \in Emails, r \in GrantInputs :
       TeamUngrant(op, e, r, 0)
  \/ \E e \in Emails, r \in GrantInputs : GrantRole(e, r)
  \/ \E e \in Emails, r \in GrantInputs : RevokeRole(e, r)

SpecStoreRoles == Init /\ [][NextStoreRoles]_vars

RevokedMembers == {<<"carol@corp", "age1c", {"dev"}>>}
RevokedStages == {"dev"}

\* an admin that writes secrets, grants and revokes access to them, and
\* revokes members with --reencrypt, every re-encryption running to its
\* end
NextRevoked ==
  \/ InitStore(AdminKey, 0)
  \/ \E m \in RevokedMembers :
       TeamInvite(AdminKey, m[1], m[3], "2", m[2], FALSE, 0)
  \/ CredAdd(AdminKey)
  \/ CredEdit(AdminKey)
  \/ \E s \in RevokedStages : EnvSet(AdminKey, s)
  \/ \E e \in Emails, a \in AccessInputs : CredAccessGrant(AdminKey, e, a)
  \/ \E e \in Emails : CredAccessRevoke(AdminKey, e)
  \/ \E s \in RevokedStages, e \in Emails, a \in AccessInputs :
       EnvAccessGrant(AdminKey, s, e, a)
  \/ \E s \in RevokedStages, e \in Emails : EnvAccessRevoke(AdminKey, s, e)
  \/ \E m \in RevokedMembers : TeamRevokeReencrypt(AdminKey, m[1], 0, NoFault)
  \/ ReEncryptAll(AdminKey, 0, NoFault)

SpecRevoked == Init /\ [][NextRevoked]_vars

\* the member is off the users file, nobody left holds the key
RevokedMember(m) ==
  /\ FindUser(users, m[1]) = 0
  /\ \A i \in 1..Len(users) : users[i].publicKey # m[2]

\* no secret file is encrypted to the key
ShutOut(key) ==
  \A i \in 1..Len(WalkOrder) : FileAt(i).exists => key \notin FileAt(i).readers

\* C35: once a member is revoked and the re-encryption has left no secret
\* encrypted to the member's key, no later secret edit, per-secret grant or
\* revoke, or re-encryption encrypts a secret to that key while the member
\* stays revoked, also when an explicit permission list still holds the key
C35_RevokedKeyStaysOut ==
  [][\A m \in RevokedMembers :
       (RevokedMember(m) /\ ShutOut(m[2]) /\ RevokedMember(m)')
         => ShutOut(m[2])']_vars

\* ------------------------------------------- access revoked per secret

\* the stage whose env file carries a list
ListStages == {"dev"}
\* the users access is granted to and taken from
ListEmails == {AdminEmail, "carol@corp"}

\* a team of two admins and a developer: secrets are written, access to
\* them is granted and revoked per secret by either admin
NextPerSecret ==
  \/ InitStore(AdminKey, 0)
  \/ \E m \in ReencryptInvites :
       TeamInvite(AdminKey, m[1], m[3], "2", m[2], FALSE, 0)
  \/ \E op \in OperatorKeys : CredAdd(op)
  \/ \E op \in OperatorKeys : CredEdit(op)
  \/ \E op \in OperatorKeys, s \in ListStages : EnvSet(op, s)
  \/ \E op \in OperatorKeys, e \in ListEmails, a \in AccessInputs :
       CredAccessGrant(op, e, a)
  \/ \E op \in OperatorKeys, e \in ListEmails : CredAccessRevoke(op, e)
  \/ \E op \in OperatorKeys, s \in ListStages, e \in ListEmails,
        a \in AccessInputs :
       EnvAccessGrant(op, s, e, a)
  \/ \E op \in OperatorKeys, s \in ListStages, e \in ListEmails :
       EnvAccessRevoke(op, s, e)

SpecPerSecret == Init /\ [][NextPerSecret]_vars

\* the step is a per-secret revoke that went through
RevokedAccess ==
  /\ last'.op \in {"CredAccessRevoke", "EnvAccessRevoke"}
  /\ last'.err = ErrNone
  /\ cred' # cred \/ envs' # envs

\* C36: a per-secret access revoke never enlarges the set of keys able to
\* decrypt the secret: the recipients after it are among the recipients
\* before it, also when the last explicit entry is removed
C36_RevokeNeverEnlarges ==
  [][RevokedAccess =>
       /\ cred'.exists /\ cred.exists => cred'.readers \subseteq cred.readers
       /\ \A s \in Stages :
            envs'[s].exists /\ envs[s].exists
              => envs'[s].readers \subseteq envs[s].readers]_vars

\* ------------------------------------------- access granted per secret

\* the member access is granted to
GrantEmails == {"carol@corp"}

\* an admin grants access per secret while a member comes, goes and comes
\* back with the key claimed for them
NextGrants ==
  \/ InitStore(AdminKey, 0)
  \/ \E e \in GrantEmails, k \in Keys :
       TeamInvite(AdminKey, e, {"dev"}, "2", k, FALSE, 0)
  \/ \E e \in GrantEmails : TeamRevoke(AdminKey, e, TRUE, 0)
  \/ CredAdd(AdminKey)
  \/ \E s \in ListStages : EnvSet(AdminKey, s)
  \/ \E e \in GrantEmails, a \in AccessLevels :
       CredAccessGrant(AdminKey, e, a)
  \/ \E s \in ListStages, e \in GrantEmails, a \in AccessLevels :
       EnvAccessGrant(AdminKey, s, e, a)

SpecGrants == Init /\ [][NextGrants]_vars

\* the file is encrypted to the key the user holds now, and its list holds
\* the user with that key and the access level
GrantedTo(file, us, email, access) ==
  LET t == FindUser(us, email) IN
  /\ t # 0
  /\ file.exists
  /\ us[t].publicKey \in file.readers
  /\ \E i \in 1..Count(file.permissions) :
       file.permissions.recipients[i] =
         RecipientPermission(email, us[t].publicKey, access)

\* C37: after a per-secret access grant for a user succeeds, the key the
\* user holds now is among the recipients of the secret, with the access
\* level asked for, also when the list already holds an entry with the
\* same email or the same key
C37_GrantReachesCurrentKey ==
  [][\A e \in GrantEmails, a \in AccessLevels :
       /\ (/\ CredAccessGrant(AdminKey, e, a)
           /\ CredAccessGrantErr(users, cred, AdminKey, e, a) = ErrNone
           /\ last'.err = ErrNone)
            => GrantedTo(cred', users', e, a)
       /\ \A s \in ListStages :
            (/\ EnvAccessGrant(AdminKey, s, e, a)
             /\ EnvAccessGrantErr(users, AdminKey, s, e, a) = ErrNone
             /\ last'.err = ErrNone)
              => GrantedTo(envs'[s], users', e, a)]_vars

\* ------------------------------------------------- the admins of a team

\* the users that hold the admin role
Admins(us) == {i \in 1..Len(us) : IsAdmin(us[i])}

\* C38: from "passbook init" on, after any sequence of team commands,
\* revoke and ungrant among them, at least one user holds the admin role
C38_AdminRemains == store = "init" => Admins(users) # {}

\* an admin was revoked by another and one admin is left
C38_Witness ==
  /\ last.op = "TeamRevoke"
  /\ last.err = ErrNone
  /\ last.email = AdminEmail
  /\ FindUser(users, AdminEmail) = 0
  /\ Cardinality(Admins(users)) = 1

\* ------------------------------------- a challenge that has run out

\* the member whose key is to be verified
RecoverEmails == {"carol@corp"}

\* "passbook team verify EMAIL RESPONSE" with the response the holder of
\* the key decrypts from the challenge on record
CorrectVerify(e) ==
  LET idx == FindVerification(pending, e) IN
  /\ idx # 0
  /\ TeamVerify(AdminKey, e, pending[idx].challenge, 0)

\* "passbook team invite EMAIL --role dev", a key entered at its prompt
InviteAgain(e) ==
  \E k \in ClaimedKeys, v \in BOOLEAN :
    TeamInvite(AdminKey, e, {"dev"}, "2", k, v, 0)

\* the admin commands that keep a user record, and the clock
NextRecover ==
  \/ InitStore(AdminKey, 0)
  \/ \E e \in RecoverEmails : InviteAgain(e)
  \/ \E e \in RecoverEmails, r \in TeamResponses :
       TeamVerify(AdminKey, e, r, 0)
  \/ \E e \in RecoverEmails, r \in GrantInputs : TeamGrant(AdminKey, e, r, 0)
  \/ \E e \in RecoverEmails, r \in GrantInputs :
       TeamUngrant(AdminKey, e, r, 0)
  \/ Tick

\* an admin who keeps inviting the member and keeps handing in the right
\* response whenever a challenge is on record
SpecRecover ==
  /\ Init
  /\ [][NextRecover]_vars
  /\ \A e \in RecoverEmails :
       /\ SF_vars(InviteAgain(e))
       /\ SF_vars(CorrectVerify(e))

\* the user is on record and verification_pending
PendingUser(e) ==
  /\ FindUser(users, e) # 0
  /\ IsPendingVerification(users[FindUser(users, e)])

\* the challenge on record for the email has expired
ChallengeRanOut(e) ==
  LET idx == FindVerification(pending, e) IN
  idx # 0 /\ IsExpired(pending[idx], now)

\* the user is on record and verified
VerifiedUser(e) ==
  /\ FindUser(users, e) # 0
  /\ ~IsPendingVerification(users[FindUser(users, e)])

\* no challenge a response could still match is on record for the email
NoLiveChallenge(e) ==
  LET idx == FindVerification(pending, e) IN
  idx = 0 \/ IsExpired(pending[idx], now)

\* a pending user without a live challenge stays so under every command
\* that keeps the record
StuckStays ==
  [][\A e \in RecoverEmails :
       PendingUser(e) /\ NoLiveChallenge(e)
         => (PendingUser(e) /\ NoLiveChallenge(e))']_vars

\* C39: a user who is verification_pending and whose challenge has expired
\* gets verified in the end, the record kept, when the admin keeps inviting
\* the email and handing in the right response
C39_ExpiredCanVerify ==
  \A e \in RecoverEmails :
    (PendingUser(e) /\ ChallengeRanOut(e)) ~> VerifiedUser(e)

\* ------------------------------------- the key a loaded identity reports

\* the key file is edited by hand: its "# public key:" line is replaced
\* (NoKey: the line is deleted)
EditKeyComment(key) ==
  /\ keyFile.exists
  /\ keyFile' = [keyFile EXCEPT !.comment = key]
  /\ last' = KeyOutcome("EditKeyComment", NoPassphrase, NoPassphrase, ErrNone)
  /\ UNCHANGED ageBackend
  /\ UNCHANGED notKeyVars

\* what is encrypted with the identity loaded from the key file
SelfPlaintexts == {<<>>, <<"p">>}
SelfLists == {<<>>, <<"age1c">>}

\* a key file is generated, edited by hand, loaded and encrypted with
NextKeyEdit ==
  \/ \E identity \in Identities, passphrase \in Passphrases \cup {NoPassphrase},
        salt \in Salts :
       GenerateIdentityWithPassphrase(identity, passphrase, salt)
  \/ \E key \in Keys \cup {NoKey} : EditKeyComment(key)
  \/ \E prompted \in Passphrases : NewAtPath(prompted)
  \/ \E passphrase \in Passphrases : NewWithPassphrase(passphrase)
  \/ \E P \in SelfPlaintexts, recipients \in SelfLists : Encrypt(P, recipients)

SpecKeyEdit == Init /\ [][NextKeyEdit]_vars

====
